---- MODULE Spec2Model ----
(***************************************************************************)
(* Rule-based tagging engine of the radar analyzer                         *)
(* (src/src/radar_analyzer/tagging_engine.py).                             *)
(*                                                                         *)
(* Numbers are exact and kept as integers, each quantity in its own unit:  *)
(*   speeds in m/s, angles in degrees, lengths in m, durations in s,       *)
(*   g-forces in tenths of a g (5.0 g = 50), curvatures in 1e-4 1/m        *)
(*   (0.001 = 10, 0.01 = 100).  The factor 0.3 of the code is applied by   *)
(*   cross-multiplication (x > 0.3*y  <=>  10*x > 3*y), and a quotient     *)
(*   a/d with d > 0 is compared by cross-multiplication as well.           *)
(*   Floating-point rounding is outside the model.                         *)
(*                                                                         *)
(* A Python value is a record with a field "type":                         *)
(*   [type |-> "num", val |-> n]        an int/float                       *)
(*   [type |-> "NoneType"]              None (any non-numeric scalar)      *)
(*   [type |-> "ndarray", val |-> seq]  a numpy array of numbers           *)
(*   [type |-> "list", val |-> seq]     a plain Python list of numbers     *)
(* A dict is a function whose DOMAIN is its set of keys.                   *)
(***************************************************************************)
EXTENDS Integers, Sequences, FiniteSets, TLC

\* ------------------------------------------------------------------------
\* Python values and dicts

Num(n) == [type |-> "num", val |-> n]

NoneVal == [type |-> "NoneType"]

NdArray(s) == [type |-> "ndarray", val |-> s]

PyList(s) == [type |-> "list", val |-> s]

\* a Python or numpy number
IsNum(v) == v.type \in {"num", "float", "int", "np.float64", "np.int64"}

EmptyDict == [k \in {} |-> 0]

\* dict.get(key, default)
Get(d, key, default) == IF key \in DOMAIN d THEN d[key] ELSE default

\* ------------------------------------------------------------------------
\* BehaviorTag: the vocabulary, and the strings' code points

BehaviorTag ==
    {"high_speed", "medium_speed", "low_speed", "g_turn", "sharp_trajectory",
     "smooth_trajectory", "hovering", "ascending", "descending",
     "evasive_maneuver", "accelerating", "decelerating", "straight_line",
     "spiral", "loitering"}

\* the characters of each tag value, as Unicode code points
Chars ==
    [t \in BehaviorTag |->
       CASE
          t = "high_speed" -> <<104, 105, 103, 104, 95, 115, 112, 101, 101, 100>>
       [] t = "medium_speed" -> <<109, 101, 100, 105, 117, 109, 95, 115, 112, 101, 101, 100>>
       [] t = "low_speed" -> <<108, 111, 119, 95, 115, 112, 101, 101, 100>>
       [] t = "g_turn" -> <<103, 95, 116, 117, 114, 110>>
       [] t = "sharp_trajectory" -> <<115, 104, 97, 114, 112, 95, 116, 114, 97, 106, 101, 99, 116, 111, 114, 121>>
       [] t = "smooth_trajectory" -> <<115, 109, 111, 111, 116, 104, 95, 116, 114, 97, 106, 101, 99, 116, 111, 114, 121>>
       [] t = "hovering" -> <<104, 111, 118, 101, 114, 105, 110, 103>>
       [] t = "ascending" -> <<97, 115, 99, 101, 110, 100, 105, 110, 103>>
       [] t = "descending" -> <<100, 101, 115, 99, 101, 110, 100, 105, 110, 103>>
       [] t = "evasive_maneuver" -> <<101, 118, 97, 115, 105, 118, 101, 95, 109, 97, 110, 101, 117, 118, 101, 114>>
       [] t = "accelerating" -> <<97, 99, 99, 101, 108, 101, 114, 97, 116, 105, 110, 103>>
       [] t = "decelerating" -> <<100, 101, 99, 101, 108, 101, 114, 97, 116, 105, 110, 103>>
       [] t = "straight_line" -> <<115, 116, 114, 97, 105, 103, 104, 116, 95, 108, 105, 110, 101>>
       [] t = "spiral" -> <<115, 112, 105, 114, 97, 108>>
       [] t = "loitering" -> <<108, 111, 105, 116, 101, 114, 105, 110, 103>>]

\* Python's str.__lt__: lexicographic on code points, a proper prefix is less
RECURSIVE LexLess(_, _)
LexLess(a, b) ==
    IF a = <<>> THEN b # <<>>
    ELSE IF b = <<>> THEN FALSE
    ELSE IF Head(a) # Head(b) THEN Head(a) < Head(b)
    ELSE LexLess(Tail(a), Tail(b))

StrLessTab == [p \in BehaviorTag \X BehaviorTag |-> LexLess(Chars[p[1]], Chars[p[2]])]

StrLess(s, t) == StrLessTab[<<s, t>>]

\* sorted(list(tags)) on a set of strings
RECURSIVE sorted(_)
sorted(S) ==
    IF S = {} THEN <<>>
    ELSE LET m == CHOOSE x \in S : \A y \in S \ {x} : StrLess(x, y)
         IN  <<m>> \o sorted(S \ {m})

\* ------------------------------------------------------------------------
\* TaggingEngine.__init__ / _load_thresholds

DefaultHighSpeed == 300

DefaultMediumSpeed == 150

DefaultLowSpeed == 50

HoveringSpeedThresh == 5

DefaultHighG == 50

DefaultMediumG == 20

DefaultSharpTurn == 45

DefaultSmoothTurn == 15

AscendingRateThresh == 10

DescendingRateThresh == -10

\* self.config = config or {}
ConfigOrEmpty(config) ==
    IF config.type = "NoneType" \/ config.val = EmptyDict THEN EmptyDict ELSE config.val

\* the low-speed default taken from the hovering threshold
load_thresholds_LowSpeedDefault(cfg) ==
    LET vel_config   == Get(cfg, "velocity_threshold", EmptyDict)
        accel_config == Get(cfg, "acceleration_threshold", EmptyDict)
        traj_config  == Get(cfg, "trajectory", EmptyDict)
    IN  [config                 |-> cfg,
         high_speed_thresh      |-> Get(vel_config, "high_speed", DefaultHighSpeed),
         medium_speed_thresh    |-> Get(vel_config, "medium_speed", DefaultMediumSpeed),
         low_speed_thresh       |-> Get(vel_config, "low_speed", HoveringSpeedThresh),
         hovering_speed_thresh  |-> HoveringSpeedThresh,
         high_g_thresh          |-> Get(accel_config, "high_g", DefaultHighG),
         medium_g_thresh        |-> Get(accel_config, "medium_g", DefaultMediumG),
         sharp_turn_thresh      |-> Get(traj_config, "sharp_turn_angle", DefaultSharpTurn),
         smooth_turn_thresh     |-> Get(traj_config, "smooth_turn_angle", DefaultSmoothTurn),
         ascending_rate_thresh  |-> AscendingRateThresh,
         descending_rate_thresh |-> DescendingRateThresh]

_load_thresholds(cfg) ==
    LET vel_config   == Get(cfg, "velocity_threshold", EmptyDict)
        accel_config == Get(cfg, "acceleration_threshold", EmptyDict)
        traj_config  == Get(cfg, "trajectory", EmptyDict)
    IN  [config                 |-> cfg,
         high_speed_thresh      |-> Get(vel_config, "high_speed", DefaultHighSpeed),
         medium_speed_thresh    |-> Get(vel_config, "medium_speed", DefaultMediumSpeed),
         low_speed_thresh       |-> Get(vel_config, "low_speed", DefaultLowSpeed),
         hovering_speed_thresh  |-> HoveringSpeedThresh,
         high_g_thresh          |-> Get(accel_config, "high_g", DefaultHighG),
         medium_g_thresh        |-> Get(accel_config, "medium_g", DefaultMediumG),
         sharp_turn_thresh      |-> Get(traj_config, "sharp_turn_angle", DefaultSharpTurn),
         smooth_turn_thresh     |-> Get(traj_config, "smooth_turn_angle", DefaultSmoothTurn),
         ascending_rate_thresh  |-> AscendingRateThresh,
         descending_rate_thresh |-> DescendingRateThresh]

TaggingEngine(config) == _load_thresholds(ConfigOrEmpty(config))

\* ------------------------------------------------------------------------
\* The rule groups.  Each returns [raised, tags]: raised is TRUE when a
\* comparison met a non-numeric operand (Python raises TypeError), and then
\* no set is returned.

Raise == [raised |-> TRUE, tags |-> {}]

Return(tags) == [raised |-> FALSE, tags |-> tags]

RECURSIVE SumSeq(_)
SumSeq(s) == IF s = <<>> THEN 0 ELSE Head(s) + SumSeq(Tail(s))

\* np.polyfit(range(len(y)), y, 1)[0], the least-squares slope, as the
\* fraction PolyfitNum / PolyfitDen (PolyfitDen > 0 when len(y) >= 2)
PolyfitNum(y) ==
    LET n  == Len(y)
        x  == [i \in 1..n |-> i - 1]
        xy == [i \in 1..n |-> x[i] * y[i]]
    IN  n * SumSeq(xy) - SumSeq(x) * SumSeq(y)

PolyfitDen(y) ==
    LET n  == Len(y)
        x  == [i \in 1..n |-> i - 1]
        xx == [i \in 1..n |-> x[i] * x[i]]
    IN  n * SumSeq(xx) - SumSeq(x) * SumSeq(x)

\* fault variant: the medium tier tested with > instead of >=
SpeedTier_StrictMedium(self, speed_mean) ==
    IF speed_mean >= self.high_speed_thresh THEN {"high_speed"}
    ELSE IF speed_mean > self.medium_speed_thresh THEN {"medium_speed"}
    ELSE IF speed_mean >= self.low_speed_thresh THEN {"low_speed"}
    ELSE IF speed_mean < self.hovering_speed_thresh THEN {"hovering"}
    ELSE {}

SpeedTier(self, speed_mean) ==
    IF speed_mean >= self.high_speed_thresh THEN {"high_speed"}
    ELSE IF speed_mean >= self.medium_speed_thresh THEN {"medium_speed"}
    ELSE IF speed_mean >= self.low_speed_thresh THEN {"low_speed"}
    ELSE IF speed_mean < self.hovering_speed_thresh THEN {"hovering"}
    ELSE {}

\* fault variant: the trend is fitted to a sequence of two samples too
SpeedTrend_TwoSamples(features, speed_mean, speed_std) ==
    IF 10 * speed_std > 3 * speed_mean
    THEN LET speed == Get(features, "speed", NdArray(<<>>))
         IN  IF speed.type = "ndarray" /\ Len(speed.val) >= 2
             THEN IF PolyfitNum(speed.val) > 5 * PolyfitDen(speed.val)
                  THEN {"accelerating"}
                  ELSE IF PolyfitNum(speed.val) < (-5) * PolyfitDen(speed.val)
                       THEN {"decelerating"}
                       ELSE {}
             ELSE {}
    ELSE {}

SpeedTrend(features, speed_mean, speed_std) ==
    IF 10 * speed_std > 3 * speed_mean
    THEN LET speed == Get(features, "speed", NdArray(<<>>))
         IN  IF speed.type = "ndarray" /\ Len(speed.val) > 2
             THEN IF PolyfitNum(speed.val) > 5 * PolyfitDen(speed.val)
                  THEN {"accelerating"}
                  ELSE IF PolyfitNum(speed.val) < (-5) * PolyfitDen(speed.val)
                       THEN {"decelerating"}
                       ELSE {}
             ELSE {}
    ELSE {}

_tag_speed(self, features) ==
    LET speed_mean == Get(features, "speed_mean", Num(0))
        speed_std  == Get(features, "speed_std", Num(0))
    IN  IF ~IsNum(speed_mean) THEN Raise
        ELSE IF ~IsNum(speed_std) THEN Raise
        ELSE Return(SpeedTier(self, speed_mean.val)
                    \cup SpeedTrend(features, speed_mean.val, speed_std.val))

\* fault variant: only g_turn is added on a high-G maneuver
tag_acceleration_GTurnOnly(self, features) ==
    LET g_force_max   == Get(features, "g_force_max", Num(0))
        high_g_events == Get(features, "high_g_events", Num(0))
    IN  IF ~IsNum(g_force_max) THEN Raise
        ELSE IF g_force_max.val > self.high_g_thresh
             THEN Return({"g_turn"})
             ELSE IF ~IsNum(high_g_events) THEN Raise
                  ELSE IF high_g_events.val > 0
                       THEN Return({"g_turn"})
                       ELSE Return({})

\* fault variant: g_force_max tested with >= instead of >
tag_acceleration_NonStrict(self, features) ==
    LET g_force_max   == Get(features, "g_force_max", Num(0))
        high_g_events == Get(features, "high_g_events", Num(0))
    IN  IF ~IsNum(g_force_max) THEN Raise
        ELSE IF g_force_max.val >= self.high_g_thresh
             THEN Return({"g_turn", "evasive_maneuver"})
             ELSE IF ~IsNum(high_g_events) THEN Raise
                  ELSE IF high_g_events.val > 0
                       THEN Return({"g_turn", "evasive_maneuver"})
                       ELSE Return({})

_tag_acceleration(self, features) ==
    LET g_force_max   == Get(features, "g_force_max", Num(0))
        high_g_events == Get(features, "high_g_events", Num(0))
    IN  IF ~IsNum(g_force_max) THEN Raise
        ELSE IF g_force_max.val > self.high_g_thresh
             THEN Return({"g_turn", "evasive_maneuver"})
             ELSE IF ~IsNum(high_g_events) THEN Raise
                  ELSE IF high_g_events.val > 0
                       THEN Return({"g_turn", "evasive_maneuver"})
                       ELSE Return({})

\* fault variant: the smooth test is an "if" of its own instead of an "elif"
TrajSmoothness_IndependentIf(self, mean_turn_angle, max_turn_angle, sharp_turns_count) ==
    IF ~IsNum(sharp_turns_count) THEN Raise
    ELSE IF sharp_turns_count.val <= 2 /\ ~IsNum(max_turn_angle) THEN Raise
    ELSE IF ~IsNum(mean_turn_angle) THEN Raise
    ELSE Return(
        (IF sharp_turns_count.val > 2 \/ max_turn_angle.val > self.sharp_turn_thresh
         THEN {"sharp_trajectory"} ELSE {})
        \cup (IF mean_turn_angle.val < self.smooth_turn_thresh
              THEN {"smooth_trajectory"} ELSE {}))

\* line 159-162: sharp / smooth
TrajSmoothness(self, mean_turn_angle, max_turn_angle, sharp_turns_count) ==
    IF ~IsNum(sharp_turns_count) THEN Raise
    ELSE IF sharp_turns_count.val > 2 THEN Return({"sharp_trajectory"})
    ELSE IF ~IsNum(max_turn_angle) THEN Raise
    ELSE IF max_turn_angle.val > self.sharp_turn_thresh THEN Return({"sharp_trajectory"})
    ELSE IF ~IsNum(mean_turn_angle) THEN Raise
    ELSE IF mean_turn_angle.val < self.smooth_turn_thresh THEN Return({"smooth_trajectory"})
    ELSE Return({})

\* line 165-166: straight line
TrajStraight(mean_turn_angle, curvature_mean) ==
    IF ~IsNum(mean_turn_angle) THEN Raise
    ELSE IF ~(mean_turn_angle.val < 5) THEN Return({})
    ELSE IF ~IsNum(curvature_mean) THEN Raise
    ELSE IF curvature_mean.val < 10 THEN Return({"straight_line"})
    ELSE Return({})

\* line 169-172: spiral
TrajSpiral(features, mean_turn_angle, curvature_mean) ==
    IF ~IsNum(curvature_mean) THEN Raise
    ELSE IF ~(curvature_mean.val > 100) THEN Return({})
    ELSE IF ~IsNum(mean_turn_angle) THEN Raise
    ELSE IF ~(mean_turn_angle.val > 20) THEN Return({})
    ELSE LET std_turn == Get(features, "std_turn_angle", Num(0))
         IN  IF ~IsNum(std_turn) THEN Raise
             ELSE IF 10 * std_turn.val < 3 * mean_turn_angle.val THEN Return({"spiral"})
             ELSE Return({})

\* fault variant: an absent feature is read as None instead of 0
tag_trajectory_AbsentIsNone(self, features) ==
    LET mean_turn_angle   == Get(features, "mean_turn_angle", NoneVal)
        max_turn_angle    == Get(features, "max_turn_angle", NoneVal)
        sharp_turns_count == Get(features, "sharp_turns_count", NoneVal)
        curvature_mean    == Get(features, "curvature_mean", NoneVal)
        smoothness == TrajSmoothness(self, mean_turn_angle, max_turn_angle, sharp_turns_count)
        straight   == TrajStraight(mean_turn_angle, curvature_mean)
        spiral     == TrajSpiral(features, mean_turn_angle, curvature_mean)
    IN  IF smoothness.raised \/ straight.raised \/ spiral.raised THEN Raise
        ELSE Return(smoothness.tags \cup straight.tags \cup spiral.tags)

_tag_trajectory(self, features) ==
    LET mean_turn_angle   == Get(features, "mean_turn_angle", Num(0))
        max_turn_angle    == Get(features, "max_turn_angle", Num(0))
        sharp_turns_count == Get(features, "sharp_turns_count", Num(0))
        curvature_mean    == Get(features, "curvature_mean", Num(0))
        smoothness == TrajSmoothness(self, mean_turn_angle, max_turn_angle, sharp_turns_count)
        straight   == TrajStraight(mean_turn_angle, curvature_mean)
        spiral     == TrajSpiral(features, mean_turn_angle, curvature_mean)
    IN  IF smoothness.raised \/ straight.raised \/ spiral.raised THEN Raise
        ELSE Return(smoothness.tags \cup straight.tags \cup spiral.tags)

\* fault variant: the rate is computed without the duration > 0 guard
\* (division by zero raises ZeroDivisionError)
tag_altitude_NoGuard(self, features) ==
    LET altitude_change == Get(features, "altitude_change", Num(0))
        duration        == Get(features, "duration", Num(1))
    IN  IF ~IsNum(duration) \/ ~IsNum(altitude_change) THEN Raise
        ELSE IF duration.val = 0 THEN Raise
        ELSE LET sign == IF duration.val > 0 THEN 1 ELSE -1
             IN  IF sign * altitude_change.val
                    > self.ascending_rate_thresh * sign * duration.val
                 THEN Return({"ascending"})
                 ELSE IF sign * altitude_change.val
                         < self.descending_rate_thresh * sign * duration.val
                      THEN Return({"descending"})
                      ELSE Return({})

\* fault variant: altitude_change is compared without dividing by duration
tag_altitude_NoDivision(self, features) ==
    LET altitude_change == Get(features, "altitude_change", Num(0))
        duration        == Get(features, "duration", Num(1))
    IN  IF ~IsNum(duration) THEN Raise
        ELSE IF duration.val > 0
             THEN IF ~IsNum(altitude_change) THEN Raise
                  ELSE IF altitude_change.val > self.ascending_rate_thresh
                       THEN Return({"ascending"})
                       ELSE IF altitude_change.val < self.descending_rate_thresh
                            THEN Return({"descending"})
                            ELSE Return({})
             ELSE Return({})

_tag_altitude(self, features) ==
    LET altitude_change == Get(features, "altitude_change", Num(0))
        duration        == Get(features, "duration", Num(1))
    IN  IF ~IsNum(duration) THEN Raise
        ELSE IF duration.val > 0
             THEN IF ~IsNum(altitude_change) THEN Raise
                  \* altitude_rate = altitude_change / duration
                  ELSE IF altitude_change.val > self.ascending_rate_thresh * duration.val
                       THEN Return({"ascending"})
                       ELSE IF altitude_change.val < self.descending_rate_thresh * duration.val
                            THEN Return({"descending"})
                            ELSE Return({})
             ELSE Return({})

\* fault variant: mean_turn_angle tested with >= instead of >
ComplexLoitering_NonStrict(self, speed_mean, mean_turn_angle, path_length) ==
    IF ~IsNum(speed_mean) THEN Raise
    ELSE IF ~(speed_mean.val < self.low_speed_thresh) THEN Return({})
    ELSE IF ~IsNum(mean_turn_angle) THEN Raise
    ELSE IF ~(mean_turn_angle.val >= 10) THEN Return({})
    ELSE IF ~IsNum(path_length) THEN Raise
    ELSE IF path_length.val > 1000 THEN Return({"loitering"})
    ELSE Return({})

\* line 203-205: loitering, into the group's own local set
ComplexLoitering(self, speed_mean, mean_turn_angle, path_length) ==
    IF ~IsNum(speed_mean) THEN Raise
    ELSE IF ~(speed_mean.val < self.low_speed_thresh) THEN Return({})
    ELSE IF ~IsNum(mean_turn_angle) THEN Raise
    ELSE IF ~(mean_turn_angle.val > 10) THEN Return({})
    ELSE IF ~IsNum(path_length) THEN Raise
    ELSE IF path_length.val > 1000 THEN Return({"loitering"})
    ELSE Return({})

\* fault variant: evasive_maneuver from the speed alone
ComplexEvasive_SpeedOnly(self, tags, speed_mean) ==
    IF speed_mean.val > self.medium_speed_thresh
    THEN {"evasive_maneuver"}
    ELSE {}

\* line 208-210: tests the group's own local set, which holds at most
\* loitering at that point
ComplexEvasive(self, tags, speed_mean) ==
    IF "g_turn" \in tags /\ "sharp_trajectory" \in tags
    THEN IF speed_mean.val > self.medium_speed_thresh
         THEN {"evasive_maneuver"}
         ELSE {}
    ELSE {}

_tag_complex_behaviors(self, features) ==
    LET speed_mean      == Get(features, "speed_mean", Num(0))
        mean_turn_angle == Get(features, "mean_turn_angle", Num(0))
        path_length     == Get(features, "total_path_length", Num(0))
        loitering == ComplexLoitering(self, speed_mean, mean_turn_angle, path_length)
    IN  IF loitering.raised THEN Raise
        ELSE Return(loitering.tags \cup ComplexEvasive(self, loitering.tags, speed_mean))

\* ------------------------------------------------------------------------
\* tag_target and batch_tag.  A call's outcome is
\*   [status |-> "ok", value |-> v]  or  [status |-> "raise", value |-> <<>>]

Ok(v) == [status |-> "ok", value |-> v]

Raised == [status |-> "raise", value |-> <<>>]

GroupOutcome(g) == IF g.raised THEN Raised ELSE Ok(g.tags)

\* fault variant: the altitude group's tags are not merged
tag_target_NoAltitude(self, features) ==
    LET speed        == _tag_speed(self, features)
        acceleration == _tag_acceleration(self, features)
        trajectory   == _tag_trajectory(self, features)
        altitude     == _tag_altitude(self, features)
        complex      == _tag_complex_behaviors(self, features)
    IN  IF speed.raised \/ acceleration.raised \/ trajectory.raised
           \/ altitude.raised \/ complex.raised
        THEN Raised
        ELSE Ok(sorted(speed.tags \cup acceleration.tags \cup trajectory.tags
                       \cup complex.tags))

tag_target(self, features) ==
    LET speed        == _tag_speed(self, features)
        acceleration == _tag_acceleration(self, features)
        trajectory   == _tag_trajectory(self, features)
        altitude     == _tag_altitude(self, features)
        complex      == _tag_complex_behaviors(self, features)
    IN  IF speed.raised \/ acceleration.raised \/ trajectory.raised
           \/ altitude.raised \/ complex.raised
        THEN Raised
        ELSE Ok(sorted(speed.tags \cup acceleration.tags \cup trajectory.tags
                       \cup altitude.tags \cup complex.tags))

\* fault variant: all_tags.extend(tags) instead of all_tags.append(tags)
RECURSIVE batch_loop_Extend(_, _, _, _)
batch_loop_Extend(self, features_list, i, all_tags) ==
    IF i > Len(features_list) THEN Ok(all_tags)
    ELSE LET tags == tag_target(self, features_list[i])
         IN  IF tags.status = "raise" THEN Raised
             ELSE batch_loop_Extend(self, features_list, i + 1, all_tags \o tags.value)

\* the loop of batch_tag over features_list[i..], all_tags built so far
RECURSIVE batch_loop(_, _, _, _)
batch_loop(self, features_list, i, all_tags) ==
    IF i > Len(features_list) THEN Ok(all_tags)
    ELSE LET tags == tag_target(self, features_list[i])
         IN  IF tags.status = "raise" THEN Raised
             ELSE batch_loop(self, features_list, i + 1, Append(all_tags, tags.value))

batch_tag(self, features_list) == batch_loop(self, features_list, 1, <<>>)

\* generate_report (line 233-286): the title of every tag, then the nine
\* metrics read with .get(key, 0) and formatted as fixed-point numbers
\* (formatting anything but a number raises TypeError); nothing is written
\* to features, tags or self
generate_report(self, features, tags) ==
    LET metrics == <<"speed_mean", "speed_max", "g_force_max", "mean_turn_angle",
                     "max_turn_angle", "altitude_mean", "altitude_change",
                     "total_path_length", "duration">>
    IN  IF \E i \in 1..Len(metrics) : ~IsNum(Get(features, metrics[i], Num(0)))
        THEN Raised
        ELSE Ok([tags    |-> [i \in 1..Len(tags) |-> [title_of |-> tags[i]]],
                 metrics |-> [i \in 1..Len(metrics) |->
                                 [fixed_point_of |-> Get(features, metrics[i], Num(0)).val]]])

\* ------------------------------------------------------------------------
\* Inputs: threshold configurations and feature maps

Merge(a, b) == [k \in DOMAIN a \cup DOMAIN b |-> IF k \in DOMAIN a THEN a[k] ELSE b[k]]

Prod(A, B) == {Merge(a, b) : a \in A, b \in B}

Key(k, vals) == {[x \in {k} |-> v] : v \in vals}

\* the key may be missing, or hold one of vals
Opt(k, vals) == {EmptyDict} \cup Key(k, vals)

Nums(S) == {Num(n) : n \in S}

CustomConfig ==
    [type |-> "dict",
     val  |-> [velocity_threshold     |-> [high_speed |-> 200, medium_speed |-> 100,
                                           low_speed |-> 60],
               acceleration_threshold |-> [high_g |-> 30, medium_g |-> 10],
               trajectory             |-> [sharp_turn_angle |-> 30,
                                           smooth_turn_angle |-> 10]]]

PartialConfig ==
    [type |-> "dict", val |-> [velocity_threshold |-> [low_speed |-> 3]]]

Configs == {NoneVal, CustomConfig, PartialConfig}

Rising == NdArray(<<0, 10, 20>>)

SpeedSeqs ==
    {NdArray(<<>>), NdArray(<<0, 100>>), Rising, NdArray(<<20, 10, 0>>),
     NdArray(<<0, 5, 10>>), NdArray(<<10, 5, 0>>), PyList(<<0, 10, 20>>)}

SpeedMaps ==
    Prod(Opt("speed_mean", {NoneVal} \cup Nums({2, 3, 4, 5, 50, 60, 100, 150, 200, 299, 300})),
    Prod(Opt("speed_std", {NoneVal} \cup Nums({1, 100})),
         Opt("speed", SpeedSeqs)))

AccelMaps ==
    Prod(Opt("g_force_max", {NoneVal} \cup Nums({30, 31, 50, 51})),
         Opt("high_g_events", {NoneVal} \cup Nums({0, 1})))

TrajMaps ==
    Prod(Opt("mean_turn_angle", {NoneVal} \cup Nums({4, 5, 9, 10, 15, 20, 21, 30})),
    Prod(Opt("max_turn_angle", {NoneVal} \cup Nums({30, 31, 45, 46})),
    Prod(Opt("sharp_turns_count", {NoneVal} \cup Nums({2, 3})),
    Prod(Opt("curvature_mean", {NoneVal} \cup Nums({9, 10, 100, 101})),
         Opt("std_turn_angle", {NoneVal} \cup Nums({6, 9}))))))

AltMaps ==
    Prod(Opt("altitude_change", {NoneVal} \cup Nums({-21, -20, -11, -10, 0, 10, 11, 20, 21})),
         Opt("duration", {NoneVal} \cup Nums({-1, 0, 1, 2})))

ComplexMaps ==
    Prod(Opt("speed_mean", {NoneVal} \cup Nums({2, 3, 49, 50, 59, 60, 200})),
    Prod(Opt("mean_turn_angle", {NoneVal} \cup Nums({10, 11})),
    Prod(Opt("total_path_length", {NoneVal} \cup Nums({1000, 1001})),
    Prod(Opt("g_force_max", Nums({51})),
         Opt("max_turn_angle", Nums({46}))))))

TargetMaps ==
    Prod(Opt("speed_mean", {NoneVal} \cup Nums({50, 150, 200, 300})),
    Prod({EmptyDict, [speed_std |-> Num(100), speed |-> Rising]},
    Prod({EmptyDict, [g_force_max |-> Num(51)], [g_force_max |-> Num(50)],
          [g_force_max |-> Num(50), high_g_events |-> Num(1)]},
    Prod(Opt("mean_turn_angle", Nums({10, 11, 25})),
    Prod(Opt("max_turn_angle", Nums({46})),
    Prod(Opt("curvature_mean", Nums({101})),
    Prod({EmptyDict, [altitude_change |-> Num(11)], [altitude_change |-> Num(-11)],
          [altitude_change |-> Num(11), duration |-> Num(0)]},
         Opt("total_path_length", Nums({1000, 1001})))))))))

\* the feature maps batches are made of; the last one makes tag_target raise
SampleMaps ==
    {EmptyDict,
     [speed_mean |-> Num(200), g_force_max |-> Num(51), max_turn_angle |-> Num(46)],
     [speed_mean |-> Num(3), mean_turn_angle |-> Num(11), total_path_length |-> Num(1001)],
     [speed_mean |-> NoneVal]}

\* a feature map and the tags an engine of default thresholds gives it
\* (none for the map that cannot be tagged)
ReportArgs ==
    {[features |-> f,
      tags     |-> LET t == tag_target(TaggingEngine(NoneVal), f)
                   IN  IF t.status = "ok" THEN t.value ELSE <<>>] : f \in SampleMaps}

MaxBatch == 3

BatchLists == UNION {[1..n -> SampleMaps] : n \in 0..MaxBatch}

\* ------------------------------------------------------------------------
\* State: two engines, the argument the caller currently holds, and what
\* each engine returned for it.  For the operations outside the rule groups
\* (export, feature extraction, synthesis): the call in progress, what each
\* of two runs of it returned, and the destination file of an export.

Engines == {"e1", "e2"}

\* rng is the state of numpy's global random source; only the generator
\* draws from it
VARIABLES engine, args, out, call, ret, disk, rng

vars == <<engine, args, out, call, ret, disk, rng>>

taggingVars == <<engine, args, out>>

Runs == {1, 2}

NoCall == [op |-> "none", arg |-> <<>>]

NoRet == [r \in Runs |-> [status |-> "none", value |-> <<>>]]

\* the destination of an export: whether its parent directory exists, and
\* the file there ("absent", "partial" after a failed write, or "complete"
\* with the JSON document doc)
NoFile == [state |-> "absent", doc |-> <<>>]

NoDisk == [parent |-> FALSE, file |-> NoFile]

NoArgs == [method |-> "none", arg |-> <<>>]

NoOut == [status |-> "none", value |-> <<>>]

Init ==
    /\ engine \in [Engines -> {TaggingEngine(c) : c \in Configs}]
    /\ args = NoArgs
    /\ out = [e \in Engines |-> NoOut]
    /\ call = NoCall
    /\ ret = NoRet
    /\ disk = NoDisk
    /\ rng = 0

\* TaggingEngine(config)
Construct(e, c) ==
    /\ args.method = "none"
    /\ engine' = [engine EXCEPT ![e] = TaggingEngine(c)]
    /\ UNCHANGED <<args, out, call, ret, disk, rng>>

\* the arguments a call of method m can be made with: any of D when the
\* caller holds nothing, else the one it holds
Candidates(m, D) ==
    IF args.method = "none" THEN D
    ELSE IF args.method = m THEN {args.arg} ELSE {}

Invoke(e, m, a, result) ==
    /\ out[e].status = "none"
    /\ args' = [method |-> m, arg |-> a]
    /\ out' = [out EXCEPT ![e] = result]
    /\ UNCHANGED <<call, ret, disk, rng>>

TagSpeed(e) ==
    \E f \in Candidates("_tag_speed", SpeedMaps) :
        /\ Invoke(e, "_tag_speed", f, GroupOutcome(_tag_speed(engine[e], f)))
        /\ UNCHANGED engine

TagAcceleration(e) ==
    \E f \in Candidates("_tag_acceleration", AccelMaps) :
        /\ Invoke(e, "_tag_acceleration", f, GroupOutcome(_tag_acceleration(engine[e], f)))
        /\ UNCHANGED engine

TagTrajectory(e) ==
    \E f \in Candidates("_tag_trajectory", TrajMaps) :
        /\ Invoke(e, "_tag_trajectory", f, GroupOutcome(_tag_trajectory(engine[e], f)))
        /\ UNCHANGED engine

TagAltitude(e) ==
    \E f \in Candidates("_tag_altitude", AltMaps) :
        /\ Invoke(e, "_tag_altitude", f, GroupOutcome(_tag_altitude(engine[e], f)))
        /\ UNCHANGED engine

TagComplexBehaviors(e) ==
    \E f \in Candidates("_tag_complex_behaviors", ComplexMaps) :
        /\ Invoke(e, "_tag_complex_behaviors", f,
                  GroupOutcome(_tag_complex_behaviors(engine[e], f)))
        /\ UNCHANGED engine

\* fault variant: a call of tag_target overwrites a threshold of the engine
TagTarget_WritesThreshold(e) ==
    \E f \in Candidates("tag_target", TargetMaps) :
        /\ Invoke(e, "tag_target", f, tag_target(engine[e], f))
        /\ engine' = [engine EXCEPT ![e].high_speed_thresh = engine[e].medium_speed_thresh]

TagTarget(e) ==
    \E f \in Candidates("tag_target", TargetMaps) :
        /\ Invoke(e, "tag_target", f, tag_target(engine[e], f))
        /\ UNCHANGED engine

\* fault variant: a call of batch_tag reloads the default thresholds
BatchTag_ResetsThresholds(e) ==
    \E l \in Candidates("batch_tag", BatchLists) :
        /\ Invoke(e, "batch_tag", l, batch_tag(engine[e], l))
        /\ engine' = [engine EXCEPT ![e] = TaggingEngine(NoneVal)]

BatchTag(e) ==
    \E l \in Candidates("batch_tag", BatchLists) :
        /\ Invoke(e, "batch_tag", l, batch_tag(engine[e], l))
        /\ UNCHANGED engine

GenerateReport(e) ==
    \E a \in Candidates("generate_report", ReportArgs) :
        /\ Invoke(e, "generate_report", a, generate_report(engine[e], a.features, a.tags))
        /\ UNCHANGED engine

\* the caller drops the argument and the results it holds
Release ==
    /\ args.method # "none"
    /\ args' = NoArgs
    /\ out' = [e \in Engines |-> NoOut]
    /\ UNCHANGED <<engine, call, ret, disk, rng>>

Next ==
    \/ \E e \in Engines, c \in Configs : Construct(e, c)
    \/ \E e \in Engines : TagSpeed(e)
    \/ \E e \in Engines : TagAcceleration(e)
    \/ \E e \in Engines : TagTrajectory(e)
    \/ \E e \in Engines : TagAltitude(e)
    \/ \E e \in Engines : TagComplexBehaviors(e)
    \/ \E e \in Engines : TagTarget(e)
    \/ \E e \in Engines : BatchTag(e)
    \/ \E e \in Engines : GenerateReport(e)
    \/ Release

Spec == Init /\ [][Next]_vars

\* ------------------------------------------------------------------------
\* TaggingEngine.export_tags, with json.dump / json.load.
\* Exported feature values carry their exact Python type:
\*   "float", "int"             Python numbers
\*   "np.float64", "np.int64"   numpy scalars
\*   "ndarray"                  a 1-D float array; "list" what tolist() gives

PyFloat(n) == [type |-> "float", val |-> n]

PyInt(n) == [type |-> "int", val |-> n]

NpFloat(n) == [type |-> "np.float64", val |-> n]

NpInt(n) == [type |-> "np.int64", val |-> n]

\* line 308-313: value.tolist(), float(value), or the value itself
Serializable(value) ==
    IF value.type = "ndarray" THEN PyList(value.val)
    ELSE IF value.type \in {"np.int64", "np.float64"} THEN PyFloat(value.val)
    ELSE value

\* fault variant: no else branch, plain Python values are left out
features_serializable_NoElse(features) ==
    [key \in {k \in DOMAIN features :
                 features[k].type \in {"ndarray", "np.int64", "np.float64"}}
       |-> Serializable(features[key])]

\* line 306-313
features_serializable(features) ==
    [key \in DOMAIN features |-> Serializable(features[key])]

\* line 304-318: zip stops at the shorter list
RECURSIVE export_data(_, _)
export_data(features_list, tags_list) ==
    IF features_list = <<>> \/ tags_list = <<>> THEN <<>>
    ELSE <<[features |-> features_serializable(Head(features_list)),
            tags     |-> Head(tags_list)]>>
         \o export_data(Tail(features_list), Tail(tags_list))

\* json: a number is written with a fraction part iff it is a float
JsonNumber(frac, n) == [j |-> "number", frac |-> frac, val |-> n]

\* values the json encoder rejects with TypeError (np.float64 is a float
\* subclass and is accepted)
JsonTypeError(value) == value.type \in {"ndarray", "np.int64"}

JsonEncode(value) ==
    IF value.type \in {"float", "np.float64"} THEN JsonNumber(TRUE, value.val)
    ELSE IF value.type \in {"int", "num"} THEN JsonNumber(FALSE, value.val)
    ELSE IF value.type = "list"
         THEN [j |-> "array",
               items |-> [i \in 1..Len(value.val) |-> JsonNumber(TRUE, value.val[i])]]
         ELSE [j |-> "null"]

JsonDecode(json) ==
    IF json.j = "number" THEN (IF json.frac THEN PyFloat(json.val) ELSE PyInt(json.val))
    ELSE IF json.j = "array"
         THEN PyList([i \in 1..Len(json.items) |-> json.items[i].val])
         ELSE NoneVal

JsonSerializable(data) ==
    \A i \in 1..Len(data) :
        \A key \in DOMAIN data[i].features : ~JsonTypeError(data[i].features[key])

\* json.dump(export_data, f, indent=2): the document written
json_dump(data) ==
    [i \in 1..Len(data) |->
        [features |-> [key \in DOMAIN data[i].features |-> JsonEncode(data[i].features[key])],
         tags     |-> [n \in 1..Len(data[i].tags) |-> [j |-> "string", val |-> data[i].tags[n]]]]]

\* json.load(f) of a document
json_load(doc) ==
    [i \in 1..Len(doc) |->
        [features |-> [key \in DOMAIN doc[i].features |-> JsonDecode(doc[i].features[key])],
         tags     |-> [n \in 1..Len(doc[i].tags) |-> doc[i].tags[n].val]]]

\* io is what the storage does during this call: "ok", or the step that
\* fails ("mkdir", "open", "write")
IoOutcomes == {"ok", "mkdir", "open", "write"}

\* fault variant: the write is wrapped in try/except that only logs
export_tags_Swallow(d, features_list, tags_list, io) ==
    LET data == export_data(features_list, tags_list)
        made == [d EXCEPT !.parent = TRUE]
    IN  IF io = "mkdir" THEN [ret |-> Ok(<<>>), disk |-> d]
        ELSE IF io = "open" THEN [ret |-> Ok(<<>>), disk |-> made]
        ELSE IF io = "write" \/ ~JsonSerializable(data)
             THEN [ret  |-> Ok(<<>>),
                   disk |-> [made EXCEPT !.file = [state |-> "partial", doc |-> <<>>]]]
             ELSE [ret  |-> Ok(<<>>),
                   disk |-> [made EXCEPT !.file = [state |-> "complete",
                                                   doc |-> json_dump(data)]]]

\* line 288-327: the outcome of the call and the destination afterwards
export_tags(d, features_list, tags_list, io) ==
    LET data == export_data(features_list, tags_list)
        made == [d EXCEPT !.parent = TRUE]
    IN  IF io = "mkdir" THEN [ret |-> Raised, disk |-> d]
        ELSE IF io = "open" THEN [ret |-> Raised, disk |-> made]
        ELSE IF io = "write" \/ ~JsonSerializable(data)
             THEN [ret  |-> Raised,
                   disk |-> [made EXCEPT !.file = [state |-> "partial", doc |-> <<>>]]]
             ELSE [ret  |-> Ok(<<>>),
                   disk |-> [made EXCEPT !.file = [state |-> "complete",
                                                   doc |-> json_dump(data)]]]

ExportMaps ==
    {EmptyDict,
     [speed_mean |-> NpFloat(350), sharp_turns_count |-> NpInt(3),
      speed |-> NdArray(<<340, 350, 360>>)],
     [num_samples |-> PyInt(3), duration |-> NpFloat(2), turn_angles |-> NdArray(<<>>)],
     [g_force |-> NdArray(<<1, 2>>), prf |-> PyFloat(1000), doppler_peak_max |-> PyInt(0)]}

ExportTagLists ==
    {<<>>, <<"high_speed", "smooth_trajectory">>, <<"evasive_maneuver", "g_turn">>}

MaxExport == 2

ExportRequests ==
    [features_list : UNION {[1..n -> ExportMaps] : n \in 0..MaxExport},
     tags_list     : UNION {[1..n -> ExportTagLists] : n \in 0..MaxExport},
     io            : IoOutcomes]

\* destinations: nothing there, the directory only, or an older export
Destinations ==
    {NoDisk,
     [parent |-> TRUE, file |-> NoFile],
     [parent |-> TRUE, file |-> [state |-> "complete", doc |-> <<>>]]}

\* the arguments a call of op can be made with: any of D when no call is in
\* progress, else those of the call in progress (its second run)
CallCandidates(op, D) ==
    IF call.op = "none" THEN D
    ELSE IF call.op = op THEN {call.arg} ELSE {}

ExportTags(r) ==
    \E a \in CallCandidates("export_tags", ExportRequests) :
        LET x == export_tags(disk, a.features_list, a.tags_list, a.io)
        IN  /\ ret[r].status = "none"
            /\ call' = [op |-> "export_tags", arg |-> a]
            /\ ret' = [ret EXCEPT ![r] = x.ret]
            /\ disk' = x.disk
            /\ UNCHANGED <<taggingVars, rng>>

\* the caller is done with the call and takes another output_path
NewDestination ==
    /\ call.op # "none"
    /\ call' = NoCall
    /\ ret' = NoRet
    /\ disk' \in Destinations
    /\ UNCHANGED <<taggingVars, rng>>

IdleTagging ==
    /\ engine = [e \in Engines |-> TaggingEngine(NoneVal)]
    /\ args = NoArgs
    /\ out = [e \in Engines |-> NoOut]

InitExport ==
    /\ IdleTagging
    /\ call = NoCall
    /\ ret = NoRet
    /\ disk \in Destinations
    /\ rng = 0

NextExport ==
    \/ \E r \in Runs : ExportTags(r)
    \/ NewDestination

SpecExport == InitExport /\ [][NextExport]_vars

\* ------------------------------------------------------------------------
\* FeatureExtractor (src/src/radar_analyzer/feature_extractor.py).
\* An (N,3) array is a sequence of N vectors <<x, y, z>>; a 1-D array is a
\* sequence of numbers; a complex sample is <<re, im>>.  Positions are in m,
\* velocities in m/s, times in s, angles in degrees, g-forces in tenths of a
\* g, curvatures in 1e-4 1/m, powers in dB.  A result that is not an integer
\* in its unit is rounded down to it.

\* the integer part of the square root of n >= 0, by bisection on lo..hi
RECURSIVE IsqrtIn(_, _, _)
IsqrtIn(n, lo, hi) ==
    IF lo >= hi THEN lo
    ELSE LET mid == (lo + hi + 1) \div 2
         IN  IF mid * mid <= n THEN IsqrtIn(n, mid, hi) ELSE IsqrtIn(n, lo, mid - 1)

\* (46340 is the largest root of a 32-bit integer)
Isqrt(n) == IsqrtIn(n, 0, IF n < 46340 THEN n ELSE 46340)

Dot(u, v) == u[1] * v[1] + u[2] * v[2] + u[3] * v[3]

Cross(u, v) ==
    <<u[2] * v[3] - u[3] * v[2], u[3] * v[1] - u[1] * v[3], u[1] * v[2] - u[2] * v[1]>>

\* np.linalg.norm(a, axis=1)
NormRows(a) == [i \in 1..Len(a) |-> Isqrt(Dot(a[i], a[i]))]

\* np.diff(a, axis=0) of an (N,3) array: N-1 rows, none when N <= 1
Diff3(a) ==
    [i \in 1..(IF Len(a) = 0 THEN 0 ELSE Len(a) - 1) |->
        <<a[i + 1][1] - a[i][1], a[i + 1][2] - a[i][2], a[i + 1][3] - a[i][3]>>]

Column(a, c) == [i \in 1..Len(a) |-> a[i][c]]

\* np.abs
AbsSeq(s) == [i \in 1..Len(s) |-> IF s[i] < 0 THEN -s[i] ELSE s[i]]

\* np.max / np.min of a non-empty array (an empty one raises ValueError)
MaxOf(s) == s[CHOOSE i \in 1..Len(s) : \A k \in 1..Len(s) : s[k] <= s[i]]

MinOf(s) == s[CHOOSE i \in 1..Len(s) : \A k \in 1..Len(s) : s[i] <= s[k]]

\* np.mean of a non-empty array (an empty one gives nan)
MeanOf(s) == SumSeq(s) \div Len(s)

\* np.var / np.std of a non-empty array
VarOf(s) == MeanOf([i \in 1..Len(s) |-> (s[i] - MeanOf(s)) * (s[i] - MeanOf(s))])

StdOf(s) == Isqrt(VarOf(s))

\* np.sum(mask): how many elements satisfy the test
CountOver(s, threshold) == Cardinality({i \in 1..Len(s) : s[i] > threshold})

\* the elements of s in increasing order
RECURSIVE SortNums(_)
SortNums(s) ==
    IF s = <<>> THEN <<>>
    ELSE LET i == CHOOSE k \in 1..Len(s) : \A m \in 1..Len(s) : s[k] <= s[m]
         IN  <<s[i]>> \o SortNums([k \in 1..(Len(s) - 1) |-> IF k < i THEN s[k] ELSE s[k + 1]])

\* np.percentile(s, q) of a non-empty array: linear interpolation at rank
\* q/100 * (n-1) of the sorted values
Percentile(s, q) ==
    LET sorted_s == SortNums(s)
        rank100  == q * (Len(s) - 1)
        below    == rank100 \div 100
        part     == rank100 % 100
    IN  IF part = 0 THEN sorted_s[below + 1]
        ELSE sorted_s[below + 1]
             + (part * (sorted_s[below + 2] - sorted_s[below + 1])) \div 100

\* np.degrees(np.arccos(np.clip(dot / (|v1|*|v2| + 1e-10), -1, 1))), on the
\* grid 0, 45, 90, 135, 180: the largest grid angle not above the angle.
\* A zero vector gives cos = 0, that is 90 degrees.
AngleDeg(v1, v2) ==
    LET d  == Dot(v1, v2)
        nn == Dot(v1, v1) * Dot(v2, v2)
    IN  IF nn = 0 THEN 90
        ELSE IF d > 0 /\ d * d >= nn THEN 0
        ELSE IF d > 0 /\ 2 * d * d >= nn THEN 45
        ELSE IF d >= 0 THEN 90
        ELSE IF 2 * d * d <= nn THEN 90
        ELSE IF d * d < nn THEN 135
        ELSE 180

\* line 133 / 173 / 30 / 164: the defaults of the extractor's configuration
\* and the g constant (9.81 m/s^2, in hundredths)
ExtractorSharpTurnAngle == 45

ExtractorHighG == 50

DefaultWindowSize == 10

GConstant == 981

\* FeatureExtractor.__init__ (the scaler is not used by the extraction)
FeatureExtractor(config) ==
    [config      |-> ConfigOrEmpty(config),
     window_size |-> Get(ConfigOrEmpty(config), "window_size", PyInt(DefaultWindowSize))]

\* _compute_acceleration: np.diff of the velocity, divided row by row by the
\* time steps when more than one timestamp is given (the arrays of a track
\* have one length), then padded with a copy of its last row.  The diff of
\* fewer than two rows has no last row: acceleration[-1] raises IndexError.
_compute_acceleration(velocity, timestamps) ==
    LET dv == Diff3(velocity)
        acceleration ==
            IF timestamps.type # "NoneType" /\ Len(timestamps.val) > 1
            THEN LET dt == [i \in 1..(Len(timestamps.val) - 1) |->
                                timestamps.val[i + 1] - timestamps.val[i]]
                 IN  [i \in 1..Len(dv) |->
                         <<dv[i][1] \div dt[i], dv[i][2] \div dt[i], dv[i][3] \div dt[i]>>]
            ELSE dv
    IN  IF Len(acceleration) = 0 THEN Raised
        ELSE Ok(Append(acceleration, acceleration[Len(acceleration)]))

\* _compute_turn_angles: no angle for fewer than 3 positions, else the angle
\* between each two consecutive steps
_compute_turn_angles(position) ==
    IF Len(position) < 3 THEN <<>>
    ELSE LET vectors == Diff3(position)
         IN  [i \in 1..(Len(vectors) - 1) |-> AngleDeg(vectors[i], vectors[i + 1])]

\* _compute_curvature: the one-element array [0] for fewer than 3 positions,
\* else one value per second difference
_compute_curvature(position) ==
    IF Len(position) < 3 THEN <<0>>
    ELSE LET velocity     == Diff3(position)
             acceleration == Diff3(velocity)
             \* |v x a| / |v|^3 in 1e-4 1/m, 0 for a step of no length
             k(v, a) ==
                 LET c2 == Dot(Cross(v, a), Cross(v, a))
                     v2 == Dot(v, v)
                 IN  IF v2 = 0 THEN 0 ELSE Isqrt((100000000 * c2) \div (v2 * v2 * v2))
         IN  [i \in 1..Len(acceleration) |-> k(velocity[i + 1], acceleration[i])]

\* extract_velocity_features; np.max of an empty speed array raises
extract_velocity_features_DropLast(self, velocity) ==
    LET speed == NormRows(SubSeq(velocity, 1, Len(velocity) - 1))
    IN  IF Len(speed) = 0 THEN Raised ELSE Ok([speed |-> NdArray(speed)])

extract_velocity_features(self, velocity) ==
    LET speed == NormRows(velocity)
    IN  IF Len(speed) = 0 THEN Raised
        ELSE Ok([speed          |-> NdArray(speed),
                 speed_mean     |-> NpFloat(MeanOf(speed)),
                 speed_std      |-> NpFloat(StdOf(speed)),
                 speed_max      |-> NpFloat(MaxOf(speed)),
                 speed_min      |-> NpFloat(MinOf(speed)),
                 speed_variance |-> NpFloat(VarOf(speed)),
                 speed_range    |-> NpFloat(MaxOf(speed) - MinOf(speed)),
                 vx_mean        |-> NpFloat(MeanOf(Column(velocity, 1))),
                 vy_mean        |-> NpFloat(MeanOf(Column(velocity, 2))),
                 vz_mean        |-> NpFloat(MeanOf(Column(velocity, 3))),
                 speed_p25      |-> NpFloat(Percentile(speed, 25)),
                 speed_p50      |-> NpFloat(Percentile(speed, 50)),
                 speed_p75      |-> NpFloat(Percentile(speed, 75)),
                 speed_p95      |-> NpFloat(Percentile(speed, 95))])

\* extract_trajectory_features.  With fewer than 3 positions turn_angles is
\* empty and np.max(np.abs(turn_angles)) (line 129) raises ValueError; with
\* 3 or more every reduction has an element to work on.
extract_trajectory_features(self, position) ==
    LET segment_lengths == NormRows(Diff3(position))
        turn_angles     == _compute_turn_angles(position)
        sharp_threshold == Get(self.config, "sharp_turn_angle", PyFloat(ExtractorSharpTurnAngle)).val
        altitude        == Column(position, 3)
        curvature       == _compute_curvature(position)
    IN  IF Len(turn_angles) = 0 THEN Raised
        ELSE Ok([total_path_length   |-> NpFloat(SumSeq(segment_lengths)),
                 mean_segment_length |-> NpFloat(MeanOf(segment_lengths)),
                 turn_angles         |-> NdArray(turn_angles),
                 mean_turn_angle     |-> NpFloat(MeanOf(AbsSeq(turn_angles))),
                 max_turn_angle      |-> NpFloat(MaxOf(AbsSeq(turn_angles))),
                 std_turn_angle      |-> NpFloat(StdOf(turn_angles)),
                 sharp_turns_count   |-> NpInt(CountOver(AbsSeq(turn_angles), sharp_threshold)),
                 altitude_mean       |-> NpFloat(MeanOf(altitude)),
                 altitude_std        |-> NpFloat(StdOf(altitude)),
                 altitude_change     |-> NpFloat(altitude[Len(altitude)] - altitude[1]),
                 altitude_max        |-> NpFloat(MaxOf(altitude)),
                 altitude_min        |-> NpFloat(MinOf(altitude)),
                 curvature_mean      |-> NpFloat(MeanOf(curvature)),
                 curvature_max       |-> NpFloat(MaxOf(curvature))])

\* extract_acceleration_features; np.max of an empty array raises (g_force
\* of no rows, or the jerk of a single row)
extract_acceleration_features(self, acceleration) ==
    LET \* |a| / 9.81 in tenths of a g
        g_force          == [i \in 1..Len(acceleration) |->
                                (Isqrt(10000 * Dot(acceleration[i], acceleration[i])) * 10)
                                \div GConstant]
        high_g_threshold == Get(self.config, "high_g", PyFloat(ExtractorHighG)).val
        jerk_magnitude   == NormRows(Diff3(acceleration))
    IN  IF Len(g_force) = 0 \/ Len(jerk_magnitude) = 0 THEN Raised
        ELSE Ok([g_force       |-> NdArray(g_force),
                 g_force_mean  |-> NpFloat(MeanOf(g_force)),
                 g_force_max   |-> NpFloat(MaxOf(g_force)),
                 g_force_std   |-> NpFloat(StdOf(g_force)),
                 high_g_events |-> NpInt(CountOver(g_force, high_g_threshold)),
                 ax_mean       |-> NpFloat(MeanOf(Column(acceleration, 1))),
                 ay_mean       |-> NpFloat(MeanOf(Column(acceleration, 2))),
                 az_mean       |-> NpFloat(MeanOf(Column(acceleration, 3))),
                 jerk_mean     |-> NpFloat(MeanOf(jerk_magnitude)),
                 jerk_max      |-> NpFloat(MaxOf(jerk_magnitude))])

\* extract_doppler_features; np.max of an empty array raises
extract_doppler_features(self, doppler) ==
    LET \* scipy.signal.find_peaks(doppler, height=np.mean(doppler)): the
        \* middle index of every run of equal samples with a lower sample
        \* on each side, kept when the sample is at least the mean
        peaks     ==
            {(p[1] + p[2]) \div 2 : p \in
                {p \in (2..Len(doppler)) \X (1..(Len(doppler) - 1)) :
                    /\ p[1] <= p[2]
                    /\ \A k \in p[1]..p[2] : doppler[k] = doppler[p[1]]
                    /\ doppler[p[1] - 1] < doppler[p[1]]
                    /\ doppler[p[2] + 1] < doppler[p[1]]
                    /\ doppler[p[1]] * Len(doppler) >= SumSeq(doppler)}}
        peak_vals == [i \in 1..Cardinality(peaks) |->
                         doppler[CHOOSE k \in peaks : Cardinality({m \in peaks : m < k}) = i - 1]]
        bandwidth_indices == {i \in 1..Len(doppler) : 2 * doppler[i] > MaxOf(doppler)}
    IN  IF Len(doppler) = 0 THEN Raised
        ELSE Ok([doppler_mean        |-> NpFloat(MeanOf(doppler)),
                 doppler_std         |-> NpFloat(StdOf(doppler)),
                 doppler_max         |-> NpFloat(MaxOf(doppler)),
                 doppler_peaks_count |-> PyInt(Cardinality(peaks)),
                 doppler_peak_max    |-> IF peaks # {} THEN NpFloat(MaxOf(peak_vals)) ELSE PyInt(0),
                 doppler_peak_mean   |-> IF peaks # {} THEN NpFloat(MeanOf(peak_vals)) ELSE PyInt(0),
                 doppler_bandwidth   |->
                     IF bandwidth_indices # {}
                     THEN NpInt((CHOOSE i \in bandwidth_indices : \A k \in bandwidth_indices : k <= i)
                                - (CHOOSE i \in bandwidth_indices : \A k \in bandwidth_indices : i <= k))
                     ELSE PyInt(0)])

\* extract_rcs_features; np.max of an empty array raises.  The fluctuation
\* std / (mean + 1e-10) is in hundredths, for a mean that is not 0.
extract_rcs_features(self, raw_data) ==
    LET \* 10 * np.log10(power + 1e-10) in dB for the powers 0, 1, 10, 100
        dB(power) == CASE power = 0   -> -100
                       [] power = 1   -> 0
                       [] power = 10  -> 10
                       [] power = 100 -> 20
        power_db  == [i \in 1..Len(raw_data) |->
                         dB(raw_data[i][1] * raw_data[i][1] + raw_data[i][2] * raw_data[i][2])]
    IN  IF Len(raw_data) = 0 THEN Raised
        ELSE Ok([rcs_mean_db     |-> NpFloat(MeanOf(power_db)),
                 rcs_std_db      |-> NpFloat(StdOf(power_db)),
                 rcs_max_db      |-> NpFloat(MaxOf(power_db)),
                 rcs_min_db      |-> NpFloat(MinOf(power_db)),
                 rcs_fluctuation |-> NpFloat((100 * StdOf(power_db)) \div MeanOf(power_db))])

\* extract_statistical_features: duration and num_samples when the track
\* has timestamps (timestamps[-1] of an empty array raises IndexError); prf
\* and center_frequency, 0 when the metadata lacks them, when it has metadata
extract_statistical_features(self, data) ==
    LET timed == IF "timestamps" \in DOMAIN data
                 THEN LET timestamps == data["timestamps"].val
                      IN  [duration    |-> NpFloat(timestamps[Len(timestamps)] - timestamps[1]),
                           num_samples |-> PyInt(Len(timestamps))]
                 ELSE EmptyDict
        meta  == IF "metadata" \in DOMAIN data
                 THEN [prf              |-> Get(data["metadata"], "prf", PyInt(0)),
                       center_frequency |-> Get(data["metadata"], "center_frequency", PyInt(0))]
                 ELSE EmptyDict
    IN  IF "timestamps" \in DOMAIN data /\ Len(data["timestamps"].val) = 0 THEN Raised
        ELSE Ok(Merge(meta, timed))

\* one step of extract_all_features: features.update(step), an exception of
\* the step or of an earlier one leaving the method
UpdateWith(features, step) ==
    IF features.status = "raise" \/ step.status = "raise" THEN Raised
    ELSE Ok(Merge(step.value, features.value))

\* extract_all_features (line 31-67): every category whose field the track
\* has, in the order of the code, the statistical features always
extract_all_features(self, data) ==
    LET velocity ==
            IF "velocity" \in DOMAIN data
            THEN extract_velocity_features(self, data["velocity"].val) ELSE Ok(EmptyDict)
        trajectory ==
            IF "position" \in DOMAIN data
            THEN extract_trajectory_features(self, data["position"].val) ELSE Ok(EmptyDict)
        acceleration ==
            IF "velocity" \in DOMAIN data
            THEN LET a == _compute_acceleration(data["velocity"].val, Get(data, "timestamps", NoneVal))
                 IN  IF a.status = "raise" THEN Raised
                     ELSE extract_acceleration_features(self, a.value)
            ELSE Ok(EmptyDict)
        doppler ==
            IF "doppler" \in DOMAIN data
            THEN extract_doppler_features(self, data["doppler"].val) ELSE Ok(EmptyDict)
        rcs ==
            IF "raw_data" \in DOMAIN data
            THEN extract_rcs_features(self, data["raw_data"].val) ELSE Ok(EmptyDict)
    IN  UpdateWith(UpdateWith(UpdateWith(UpdateWith(UpdateWith(UpdateWith(
            Ok(EmptyDict), velocity), trajectory), acceleration), doppler), rcs),
            extract_statistical_features(self, data))

\* ------------------------------------------------------------------------
\* The tracks handed to the extractor, and its calls

\* the largest number of samples of a track
MaxSamples == 3

VelocityArrays(n) == [1..n -> {<<3, 4, 0>>, <<60, 0, 80>>}]

\* the positions reached from <<0, 0, 1000>> by the given steps
RECURSIVE PathOf(_)
PathOf(steps) ==
    IF steps = <<>> THEN <<<<0, 0, 1000>>>>
    ELSE LET before == PathOf(SubSeq(steps, 1, Len(steps) - 1))
             last   == before[Len(before)]
             step   == steps[Len(steps)]
         IN  Append(before, <<last[1] + step[1], last[2] + step[2], last[3] + step[3]>>)

PositionArrays(n) ==
    IF n = 0 THEN {<<>>} ELSE {PathOf(steps) : steps \in [1..(n - 1) -> {<<1, 0, 0>>, <<0, 1, 1>>, <<0, 0, 0>>}]}

\* the tracks of 1..MaxSamples samples: every field may be missing, the
\* arrays present have one length; the metadata may lack prf and
\* center_frequency
Tracks ==
    UNION {LET arrays(S)  == {NdArray(a) : a \in S}
               doppler    == {[i \in 1..n |-> 1], [i \in 1..n |-> IF i = 2 THEN 9 ELSE 1]}
               raw_data   == {[i \in 1..n |-> IF i = 1 THEN <<3, 1>> ELSE <<6, 8>>]}
               timestamps == {[i \in 1..n |-> 2 * (i - 1)]}
               metadata   == {EmptyDict, [prf |-> PyFloat(1000)],
                              [prf |-> PyFloat(1000), center_frequency |-> PyFloat(10)]}
           IN  Prod(Opt("velocity", arrays(VelocityArrays(n))),
               Prod(Opt("position", arrays(PositionArrays(n))),
               Prod(Opt("doppler", arrays(doppler)),
               Prod(Opt("raw_data", arrays(raw_data)),
               Prod(Opt("timestamps", arrays(timestamps)),
                    Opt("metadata", metadata)))))) : n \in 1..MaxSamples}

\* the extractors: one without configuration, one configured
Extractors ==
    {FeatureExtractor(c) :
        c \in {NoneVal,
               [type |-> "dict",
                val  |-> [window_size      |-> PyInt(10),
                          sharp_turn_angle |-> PyFloat(30),
                          high_g           |-> PyFloat(30)]]}}

\* The extractor's caller holds one result, in ret[1].

\* extractor.extract_all_features(data)
ExtractAllFeatures ==
    \E a \in CallCandidates("extract_all_features",
                            {[self |-> x, data |-> d] : x \in Extractors, d \in Tracks}) :
        /\ ret[1].status = "none"
        /\ call' = [op |-> "extract_all_features", arg |-> a]
        /\ ret' = [ret EXCEPT ![1] = extract_all_features(a.self, a.data)]
        /\ UNCHANGED <<taggingVars, disk, rng>>

\* extractor.extract_velocity_features(velocity)
ExtractVelocityFeatures ==
    \E a \in CallCandidates("extract_velocity_features",
                            {[self |-> x, velocity |-> v] :
                                x \in Extractors,
                                v \in UNION {VelocityArrays(n) : n \in 1..MaxSamples}}) :
        /\ ret[1].status = "none"
        /\ call' = [op |-> "extract_velocity_features", arg |-> a]
        /\ ret' = [ret EXCEPT ![1] = extract_velocity_features(a.self, a.velocity)]
        /\ UNCHANGED <<taggingVars, disk, rng>>

\* extractor.extract_trajectory_features(position)
ExtractTrajectoryFeatures ==
    \E a \in CallCandidates("extract_trajectory_features",
                            {[self |-> x, position |-> p] :
                                x \in Extractors,
                                p \in UNION {PositionArrays(n) : n \in 1..MaxSamples}}) :
        /\ ret[1].status = "none"
        /\ call' = [op |-> "extract_trajectory_features", arg |-> a]
        /\ ret' = [ret EXCEPT ![1] = extract_trajectory_features(a.self, a.position)]
        /\ UNCHANGED <<taggingVars, disk, rng>>

\* extractor._compute_turn_angles(position)
ComputeTurnAngles ==
    \E a \in CallCandidates("_compute_turn_angles",
                            {[position |-> p] :
                                p \in UNION {PositionArrays(n) : n \in 0..MaxSamples}}) :
        /\ ret[1].status = "none"
        /\ call' = [op |-> "_compute_turn_angles", arg |-> a]
        /\ ret' = [ret EXCEPT ![1] = Ok(NdArray(_compute_turn_angles(a.position)))]
        /\ UNCHANGED <<taggingVars, disk, rng>>

\* extractor._compute_curvature(position)
ComputeCurvature ==
    \E a \in CallCandidates("_compute_curvature",
                            {[position |-> p] :
                                p \in UNION {PositionArrays(n) : n \in 0..MaxSamples}}) :
        /\ ret[1].status = "none"
        /\ call' = [op |-> "_compute_curvature", arg |-> a]
        /\ ret' = [ret EXCEPT ![1] = Ok(NdArray(_compute_curvature(a.position)))]
        /\ UNCHANGED <<taggingVars, disk, rng>>

\* the caller is done with the call and takes another track
NewTrack ==
    /\ call.op # "none"
    /\ call' = NoCall
    /\ ret' = NoRet
    /\ UNCHANGED <<taggingVars, disk, rng>>

InitExtract ==
    /\ IdleTagging
    /\ call = NoCall
    /\ ret = NoRet
    /\ disk = NoDisk
    /\ rng = 0

NextExtract ==
    \/ ExtractAllFeatures
    \/ ExtractVelocityFeatures
    \/ ExtractTrajectoryFeatures
    \/ ComputeTurnAngles
    \/ ComputeCurvature
    \/ NewTrack

SpecExtract == InitExtract /\ [][NextExtract]_vars

\* ------------------------------------------------------------------------
\* SyntheticDataGenerator (src/src/radar_analyzer/synthetic_generator.py).
\* Times are in microseconds, the weights of a distribution and the noise
\* level in hundredths.  The motion models are real-valued closed forms of
\* the time; a sample is written as the record of what the code computes it
\* from (the model, the times it integrates over, the random draws added),
\* so that two samples are equal when they are computed from the same data.

PyStr(s) == [type |-> "str", val |-> s]

\* line 30-39: the defaults of the configuration (duration 60.0 s, noise
\* level 0.05) and the radar parameters (10 GHz, 1000 Hz, 100 MHz)
DefaultNumSamples == 10000

DefaultDuration == 60000000

DefaultSamplingRate == 1000

DefaultNoiseLevel == 5

DefaultNumTargets == 5

CenterFrequency == 10

Prf == 1000

Bandwidth == 100

\* SyntheticDataGenerator.__init__
SyntheticDataGenerator(config) ==
    LET cfg == ConfigOrEmpty(config)
    IN  [config           |-> cfg,
         num_samples      |-> Get(cfg, "num_samples", PyInt(DefaultNumSamples)),
         duration         |-> Get(cfg, "duration", PyFloat(DefaultDuration)),
         sampling_rate    |-> Get(cfg, "sampling_rate", PyInt(DefaultSamplingRate)),
         noise_level      |-> Get(cfg, "noise_level", PyFloat(DefaultNoiseLevel)),
         num_targets      |-> Get(cfg, "num_targets", PyInt(DefaultNumTargets)),
         center_frequency |-> PyFloat(CenterFrequency),
         prf              |-> PyFloat(Prf),
         bandwidth        |-> PyFloat(Bandwidth)]

\* numpy's global random source: a generator with a state, here of period
\* RngPeriod; a draw is set by the state it is made in and moves the source
\* to the next state
RngPeriod == 8

RngNext(s) == (5 * s + 3) % RngPeriod

RECURSIVE RngAfter(_, _)
RngAfter(s, n) == IF n <= 0 THEN s ELSE RngAfter(RngNext(s), n - 1)

\* np.random.randn(n) drawn from state s
Randn(s, n) == [i \in 1..n |-> RngAfter(s, i - 1)]

\* np.random.choice(a, p=p) drawn from state s, p[j] = <<numerator,
\* denominator>> with one positive denominator: ValueError for an empty a, a
\* negative probability or probabilities that do not sum to 1, else the
\* first entry whose cumulative probability exceeds the uniform draw
\* s / RngPeriod
Choice(a, p, s) ==
    LET num(j) == p[j][1]
        den    == p[1][2]
        cum(j) == SumSeq([k \in 1..j |-> num(k)])
        hit(j) == RngPeriod * cum(j) > s * den
    IN  IF Len(a) = 0 THEN Raised
        ELSE IF \E j \in 1..Len(p) : num(j) < 0 THEN Raised
        ELSE IF cum(Len(p)) # den THEN Raised
        ELSE Ok(a[CHOOSE j \in 1..Len(a) : hit(j) /\ \A k \in 1..(j - 1) : ~hit(k)])

\* int(x) of the quotient num / den, den > 0: the fraction is cut off
IntOf(num, den) == IF num >= 0 THEN num \div den ELSE -((-num) \div den)

\* _compute_velocity (line 291-301, and inline at line 157-160): zeros, and
\* for more than one position the difference quotients, the first sample a
\* copy of the second
_compute_velocity(position, timestamps) ==
    [i \in 1..Len(position) |->
        IF Len(position) > 1
        THEN LET k == IF i = 1 THEN 2 ELSE i
             IN  [from |-> position[k - 1], to |-> position[k],
                  dt   |-> timestamps[k] - timestamps[k - 1]]
        ELSE [zeros |-> 3]]

\* _generate_high_speed_trajectory, _generate_medium_speed_trajectory,
\* _generate_g_turn_trajectory, _generate_sharp_trajectory,
\* _generate_evasive_trajectory and _generate_default_trajectory: x and y
\* are cumulative sums of the model's speed and heading over the samples so
\* far (np.diff(t, prepend=t[0]) raises IndexError when there is no sample)
CumulativeTrajectory(model, timestamps, s) ==
    IF Len(timestamps) = 0 THEN [ret |-> Raised, rng |-> s]
    ELSE LET position == [i \in 1..Len(timestamps) |->
                             [model  |-> model,
                              upto   |-> SubSeq(timestamps, 1, i),
                              jitter |-> <<>>]]
         IN  [ret |-> Ok([position |-> position,
                          velocity |-> _compute_velocity(position, timestamps)]),
              rng |-> s]

\* _generate_hovering_trajectory: a closed form of the sample's time plus
\* 5 * np.random.randn(len(t)) on x and then on y
_generate_hovering_trajectory(timestamps, s) ==
    LET n        == Len(timestamps)
        jx       == Randn(s, n)
        jy       == Randn(RngAfter(s, n), n)
        position == [i \in 1..n |->
                        [model  |-> "hovering",
                         upto   |-> <<timestamps[i]>>,
                         jitter |-> <<5 * jx[i], 5 * jy[i]>>]]
    IN  [ret |-> Ok([position |-> position,
                     velocity |-> _compute_velocity(position, timestamps)]),
         rng |-> RngAfter(s, 2 * n)]

\* _generate_spiral_trajectory: a closed form of the sample's time and of
\* the last time (t[-1] raises IndexError when there is no sample)
_generate_spiral_trajectory(timestamps, s) ==
    IF Len(timestamps) = 0 THEN [ret |-> Raised, rng |-> s]
    ELSE LET position == [i \in 1..Len(timestamps) |->
                             [model  |-> "spiral",
                              upto   |-> <<timestamps[i], timestamps[Len(timestamps)]>>,
                              jitter |-> <<>>]]
         IN  [ret |-> Ok([position |-> position,
                          velocity |-> _compute_velocity(position, timestamps)]),
              rng |-> s]

\* _generate_radar_returns: per sample the signal of its position, velocity
\* and time, plus noise_level * (randn + 1j * randn)
_generate_radar_returns(self, position, velocity, timestamps, s) ==
    LET num_samples == Len(timestamps)
        re          == Randn(s, num_samples)
        im          == Randn(RngAfter(s, num_samples), num_samples)
    IN  [signal |-> [i \in 1..num_samples |->
                        [position |-> position[i], velocity |-> velocity[i],
                         t        |-> timestamps[i],
                         noise    |-> <<self.noise_level.val * re[i],
                                        self.noise_level.val * im[i]>>]],
         rng    |-> RngAfter(s, 2 * num_samples)]

\* the spectrum of a real-input transform: only the first half of the bins
generate_doppler_spectrum_HalfSpectrum(velocity) ==
    IF Len(velocity) = 0 THEN Raised
    ELSE Ok([k \in 1..((Len(velocity) + 1) \div 2) |-> [bin |-> k, speed_of |-> velocity]])

\* _generate_doppler_spectrum: the shifted magnitudes of the FFT of the
\* speeds, one bin per sample (np.fft.fft of no sample raises ValueError)
_generate_doppler_spectrum(velocity) ==
    IF Len(velocity) = 0 THEN Raised
    ELSE Ok([k \in 1..Len(velocity) |-> [bin |-> k, speed_of |-> velocity]])

\* generate_target (line 84-142): the result and the random source after it
generate_target(self, behavior, target_id, s) ==
    LET num_samples == IntOf(self.duration.val * self.prf.val, 1000000)
        \* np.linspace(0, duration, num_samples): ValueError for a negative
        \* number, else that many evenly spaced samples from 0 to duration
        linspace    ==
            IF num_samples < 0 THEN Raised
            ELSE Ok([i \in 1..num_samples |->
                        IF num_samples = 1 THEN 0
                        ELSE ((i - 1) * self.duration.val) \div (num_samples - 1)])
        timestamps  == linspace.value
        trajectory  ==
            CASE behavior = "high_speed"       -> CumulativeTrajectory("high_speed", timestamps, s)
              [] behavior = "medium_speed"     -> CumulativeTrajectory("medium_speed", timestamps, s)
              [] behavior = "g_turn"           -> CumulativeTrajectory("g_turn", timestamps, s)
              [] behavior = "sharp_trajectory" -> CumulativeTrajectory("sharp_trajectory", timestamps, s)
              [] behavior = "hovering"         -> _generate_hovering_trajectory(timestamps, s)
              [] behavior = "evasive_maneuver" -> CumulativeTrajectory("evasive_maneuver", timestamps, s)
              [] behavior = "spiral"           -> _generate_spiral_trajectory(timestamps, s)
              [] OTHER                         -> CumulativeTrajectory("default", timestamps, s)
        position    == trajectory.ret.value.position
        velocity    == trajectory.ret.value.velocity
        returns     == _generate_radar_returns(self, position, velocity, timestamps, trajectory.rng)
        doppler     == _generate_doppler_spectrum(velocity)
        metadata    == [target_id        |-> target_id,
                        behavior         |-> PyStr(behavior),
                        sampling_rate    |-> self.sampling_rate,
                        prf              |-> self.prf,
                        center_frequency |-> self.center_frequency,
                        duration         |-> self.duration,
                        num_samples      |-> PyInt(num_samples)]
    IN  IF linspace.status = "raise" THEN [ret |-> Raised, rng |-> s]
        ELSE IF trajectory.ret.status = "raise" THEN [ret |-> Raised, rng |-> trajectory.rng]
        ELSE IF doppler.status = "raise" THEN [ret |-> Raised, rng |-> returns.rng]
        ELSE [ret |-> Ok([raw_data              |-> NdArray(returns.signal),
                          position              |-> NdArray(position),
                          velocity              |-> NdArray(velocity),
                          timestamps            |-> NdArray(timestamps),
                          doppler               |-> NdArray(doppler.value),
                          metadata              |-> metadata,
                          ground_truth_behavior |-> PyStr(behavior)]),
              rng |-> returns.rng]

\* line 53-60: the distribution used when none is given, in the order of
\* the dict
DefaultDistribution ==
    <<<<"high_speed", 25>>, <<"medium_speed", 25>>, <<"g_turn", 15>>,
      <<"sharp_trajectory", 15>>, <<"hovering", 10>>, <<"evasive_maneuver", 10>>>>

\* line 73-80: for i in range(self.num_targets), draw a behavior and
\* generate its target; an exception leaves the loop and the method
RECURSIVE dataset_loop(_, _, _, _, _, _)
dataset_loop(self, behaviors, probabilities, i, dataset, s) ==
    IF i >= self.num_targets.val THEN [ret |-> Ok(dataset), rng |-> s]
    ELSE LET behavior == Choice(behaviors, probabilities, s)
         IN  IF behavior.status = "raise" THEN [ret |-> Raised, rng |-> s]
             ELSE LET target_data == generate_target(self, behavior.value, PyInt(i), RngNext(s))
                  IN  IF target_data.ret.status = "raise"
                      THEN [ret |-> Raised, rng |-> target_data.rng]
                      ELSE dataset_loop(self, behaviors, probabilities, i + 1,
                                        Append(dataset, target_data.ret.value),
                                        target_data.rng)

\* generate_dataset (line 41-82); a distribution is the sequence of its
\* <<behavior, weight>> entries.  p / total_prob raises ZeroDivisionError
\* when the weights sum to 0.
generate_dataset_NotNormalized(self, behavior_distribution, s) ==
    LET distribution  == IF behavior_distribution.type = "NoneType"
                         THEN DefaultDistribution ELSE behavior_distribution.val
        behaviors     == [j \in 1..Len(distribution) |-> distribution[j][1]]
        probabilities == [j \in 1..Len(distribution) |-> <<distribution[j][2], 100>>]
    IN  dataset_loop(self, behaviors, probabilities, 0, <<>>, s)

generate_dataset(self, behavior_distribution, s) ==
    LET distribution  == IF behavior_distribution.type = "NoneType"
                         THEN DefaultDistribution ELSE behavior_distribution.val
        behaviors     == [j \in 1..Len(distribution) |-> distribution[j][1]]
        weights       == [j \in 1..Len(distribution) |-> distribution[j][2]]
        total_prob    == SumSeq(weights)
        probabilities == [j \in 1..Len(distribution) |-> <<weights[j], total_prob>>]
    IN  IF Len(distribution) > 0 /\ total_prob = 0 THEN [ret |-> Raised, rng |-> s]
        ELSE dataset_loop(self, behaviors, probabilities, 0, <<>>, s)

\* scenarios.append(self.generate_target(...)) for the scenarios from the
\* k-th on, an exception leaving the method
RECURSIVE scenarios_from(_, _, _, _, _)
scenarios_from(self, todo, k, scenarios, s) ==
    IF k > Len(todo) THEN [ret |-> Ok(scenarios), rng |-> s]
    ELSE LET target_data == generate_target(self, todo[k][1], PyInt(todo[k][2]), s)
         IN  IF target_data.ret.status = "raise" THEN [ret |-> Raised, rng |-> target_data.rng]
             ELSE scenarios_from(self, todo, k + 1, Append(scenarios, target_data.ret.value),
                                 target_data.rng)

\* generate_test_scenarios (line 394-419)
generate_test_scenarios_Swapped(self, s) ==
    scenarios_from(self,
                   <<<<"high_speed", 1001>>, <<"medium_speed", 1002>>,
                     <<"evasive_maneuver", 1003>>, <<"hovering", 1004>>,
                     <<"sharp_trajectory", 1005>>>>,
                   1, <<>>, s)

generate_test_scenarios(self, s) ==
    scenarios_from(self,
                   <<<<"high_speed", 1001>>, <<"evasive_maneuver", 1002>>,
                     <<"medium_speed", 1003>>, <<"hovering", 1004>>,
                     <<"sharp_trajectory", 1005>>>>,
                   1, <<>>, s)

\* ------------------------------------------------------------------------
\* The generators and the requests made to them

\* the largest number of samples of a generated track, and of targets of a
\* dataset
MaxGenSamples == 2

MaxTargets == 2

\* the generators: 0..MaxTargets targets, durations of n and a half
\* milliseconds for n in 0..MaxGenSamples (n samples at the PRF of 1000 Hz)
Generators ==
    {SyntheticDataGenerator(
         [type |-> "dict",
          val  |-> [num_targets |-> PyInt(n), duration |-> PyFloat(1000 * k + 500),
                    sampling_rate |-> PyInt(1000), noise_level |-> PyFloat(5),
                    num_samples |-> PyInt(10000)]]) :
        n \in 0..MaxTargets, k \in 0..MaxGenSamples}

Archetypes ==
    {"high_speed", "medium_speed", "g_turn", "sharp_trajectory", "hovering",
     "evasive_maneuver", "spiral"}

\* the distributions handed to generate_dataset: none, one of two weights
\* as given and at another scale, one with weights of 0, and one of weights
\* that are all 0
Distributions ==
    {NoneVal,
     [type |-> "dict", val |-> <<<<"high_speed", 60>>, <<"hovering", 40>>>>],
     [type |-> "dict", val |-> <<<<"high_speed", 300>>, <<"hovering", 200>>>>],
     [type |-> "dict", val |-> <<<<"g_turn", 0>>, <<"spiral", 50>>, <<"hovering", 0>>>>],
     [type |-> "dict", val |-> <<<<"high_speed", 0>>, <<"hovering", 0>>>>]}

\* generator.generate_target(behavior, target_id=7), for the archetypes and
\* for a name that is none of them
GenerateTarget(r) ==
    \E a \in CallCandidates("generate_target",
                            {[self |-> g, behavior |-> b, target_id |-> PyInt(7)] :
                                g \in Generators, b \in Archetypes \cup {"loitering"}}) :
        LET x == generate_target(a.self, a.behavior, a.target_id, rng)
        IN  /\ ret[r].status = "none"
            /\ call' = [op |-> "generate_target", arg |-> a]
            /\ ret' = [ret EXCEPT ![r] = x.ret]
            /\ rng' = x.rng
            /\ UNCHANGED <<taggingVars, disk>>

\* generator.generate_test_scenarios()
GenerateTestScenarios(r) ==
    \E a \in CallCandidates("generate_test_scenarios", {[self |-> g] : g \in Generators}) :
        LET x == generate_test_scenarios(a.self, rng)
        IN  /\ ret[r].status = "none"
            /\ call' = [op |-> "generate_test_scenarios", arg |-> a]
            /\ ret' = [ret EXCEPT ![r] = x.ret]
            /\ rng' = x.rng
            /\ UNCHANGED <<taggingVars, disk>>

\* generator.generate_dataset(behavior_distribution)
GenerateDataset(r) ==
    \E a \in CallCandidates("generate_dataset",
                            {[self |-> g, behavior_distribution |-> d] :
                                g \in Generators, d \in Distributions}) :
        LET x == generate_dataset(a.self, a.behavior_distribution, rng)
        IN  /\ ret[r].status = "none"
            /\ call' = [op |-> "generate_dataset", arg |-> a]
            /\ ret' = [ret EXCEPT ![r] = x.ret]
            /\ rng' = x.rng
            /\ UNCHANGED <<taggingVars, disk>>

\* the caller is done with the results and makes another request, the
\* random source in whatever state other code has brought it to
NewRequest ==
    /\ call.op # "none"
    /\ call' = NoCall
    /\ ret' = NoRet
    /\ rng' \in 0..(RngPeriod - 1)
    /\ UNCHANGED <<taggingVars, disk>>

InitGenerate ==
    /\ IdleTagging
    /\ call = NoCall
    /\ ret = NoRet
    /\ disk = NoDisk
    /\ rng \in 0..(RngPeriod - 1)

NextGenerate ==
    \/ \E r \in Runs : GenerateTarget(r)
    \/ \E r \in Runs : GenerateTestScenarios(r)
    \/ \E r \in Runs : GenerateDataset(r)
    \/ NewRequest

SpecGenerate == InitGenerate /\ [][NextGenerate]_vars

\* ------------------------------------------------------------------------
\* Construction from partial configurations: no configuration, and every
\* dict in which each section is missing or holds any subset of its keys

SubDicts(d) == {[k \in K |-> d[k]] : K \in SUBSET DOMAIN d}

ThresholdConfigs ==
    {NoneVal} \cup
    {[type |-> "dict", val |-> c] :
        c \in Prod(Opt("velocity_threshold", SubDicts(CustomConfig.val.velocity_threshold)),
              Prod(Opt("acceleration_threshold",
                       SubDicts(CustomConfig.val.acceleration_threshold)),
                   Opt("trajectory", SubDicts(CustomConfig.val.trajectory))))}

InitConfigure ==
    /\ IdleTagging
    /\ call = NoCall
    /\ ret = NoRet
    /\ disk = NoDisk
    /\ rng = 0

\* the engines do not share state: one of them is constructed again and again
NextConfigure == \E c \in ThresholdConfigs : Construct("e1", c)

SpecConfigure == InitConfigure /\ [][NextConfigure]_vars

\* ------------------------------------------------------------------------
\* analyze_batch (main.py): the files of the input directory are loaded,
\* analysed and tagged one after the other, a report is written for each,
\* and the results of all of them are exported together.
\*
\* The call in progress is call = [op |-> "analyze_batch", arg |-> [files]],
\* and ret[1] holds its position: status "running" while in the loop, then
\* the outcome of the export; value holds i (the file the loop is at), pc
\* ("try": about to load file i, or past the last file; "report": the
\* results of file i are appended, its report is not written yet),
\* all_features, all_tags and the reports written.

\* the largest number of files of the input directory
MaxFiles == 3

\* what data_loader.load_file gives for a file: an error (unreadable or
\* truncated file), or the track read from it
BatchFiles ==
    {[load |-> Raised],
     \* velocity, position and timestamps of three samples
     [load |-> Ok([velocity   |-> NdArray(<<<<3, 4, 0>>, <<60, 0, 80>>, <<60, 0, 80>>>>),
                   position   |-> NdArray(PathOf(<<<<1, 0, 0>>, <<0, 1, 1>>>>)),
                   timestamps |-> NdArray(<<0, 2, 4>>),
                   metadata   |-> [prf |-> PyFloat(1000)]])],
     \* a position-only track on a straight line
     [load |-> Ok([position   |-> NdArray(PathOf(<<<<1, 0, 0>>, <<1, 0, 0>>>>)),
                   timestamps |-> NdArray(<<0, 2, 4>>)])],
     \* a single velocity sample: feature extraction raises
     [load |-> Ok([velocity   |-> NdArray(<<<<3, 4, 0>>>>),
                   timestamps |-> NdArray(<<0>>)])]}

\* line 148-150: load, extract and tag one file; the first failure ends it
load_extract_tag(tagging_engine, file) ==
    IF file.load.status = "raise" THEN Raised
    ELSE LET features == extract_all_features(FeatureExtractor(NoneVal), file.load.value)
         IN  IF features.status = "raise" THEN Raised
             ELSE LET tags == tag_target(tagging_engine, features.value)
                  IN  IF tags.status = "raise" THEN Raised
                      ELSE Ok([features |-> features.value, tags |-> tags.value])

\* line 123-141: the output directory is made, the files are listed and the
\* two result lists start empty
StartBatch ==
    \E files \in UNION {[1..n -> BatchFiles] : n \in 0..MaxFiles} :
        /\ call.op = "none"
        /\ call' = [op |-> "analyze_batch", arg |-> [files |-> files]]
        /\ ret' = [ret EXCEPT ![1] =
                      [status |-> "running",
                       value  |-> [i |-> 1, pc |-> "try", all_features |-> <<>>,
                                   all_tags |-> <<>>, reports |-> <<>>]]]
        /\ disk' = [disk EXCEPT !.parent = TRUE]
        /\ UNCHANGED <<taggingVars, rng>>

\* fault variant: the first failure ends the loop
ProcessFile_StopsAtFailure ==
    LET at       == ret[1].value
        analysis == load_extract_tag(engine["e1"], call.arg.files[at.i])
    IN  /\ call.op = "analyze_batch"
        /\ ret[1].status = "running"
        /\ at.pc = "try"
        /\ at.i <= Len(call.arg.files)
        /\ ret' = [ret EXCEPT ![1].value =
                      IF analysis.status = "raise"
                      THEN [at EXCEPT !.i = Len(call.arg.files) + 1]
                      ELSE [at EXCEPT !.all_features = Append(@, analysis.value.features),
                                      !.all_tags     = Append(@, analysis.value.tags),
                                      !.pc           = "report"]]
        /\ UNCHANGED <<taggingVars, call, disk, rng>>

\* line 143-153 and 161-163: file i is loaded, analysed and tagged; when
\* one of the three raises the error is logged and the loop goes on with
\* the next file, else the features and the tags are appended
ProcessFile ==
    LET at       == ret[1].value
        analysis == load_extract_tag(engine["e1"], call.arg.files[at.i])
    IN  /\ call.op = "analyze_batch"
        /\ ret[1].status = "running"
        /\ at.pc = "try"
        /\ at.i <= Len(call.arg.files)
        /\ ret' = [ret EXCEPT ![1].value =
                      IF analysis.status = "raise"
                      THEN [at EXCEPT !.i = at.i + 1]
                      ELSE [at EXCEPT !.all_features = Append(@, analysis.value.features),
                                      !.all_tags     = Append(@, analysis.value.tags),
                                      !.pc           = "report"]]
        /\ UNCHANGED <<taggingVars, call, disk, rng>>

\* line 155-163: the report of file i is generated and written; a failure
\* of either is logged, and the loop goes on with the next file
WriteReport ==
    \E io \in {"ok", "open"} :
        LET at     == ret[1].value
            n      == Len(at.all_features)
            report == generate_report(engine["e1"], at.all_features[n], at.all_tags[n])
        IN  /\ call.op = "analyze_batch"
            /\ ret[1].status = "running"
            /\ at.pc = "report"
            /\ ret' = [ret EXCEPT ![1].value =
                          [at EXCEPT !.i       = at.i + 1,
                                     !.pc      = "try",
                                     !.reports =
                                         IF report.status = "ok" /\ io = "ok"
                                         THEN Append(@, [file |-> at.i, text |-> report.value])
                                         ELSE @]]
            /\ UNCHANGED <<taggingVars, call, disk, rng>>

\* line 165-167: after the last file the two lists are exported to
\* combined_results.json; a failure of the export is not caught
ExportCombined ==
    \E io \in IoOutcomes :
        LET at == ret[1].value
            x  == export_tags(disk, at.all_features, at.all_tags, io)
        IN  /\ call.op = "analyze_batch"
            /\ ret[1].status = "running"
            /\ at.pc = "try"
            /\ at.i > Len(call.arg.files)
            /\ ret' = [ret EXCEPT ![1] = [status |-> x.ret.status,
                                          value  |-> [at EXCEPT !.pc = "done"]]]
            /\ disk' = x.disk
            /\ UNCHANGED <<taggingVars, call, rng>>

\* another run, on another output directory
NewBatch ==
    /\ call.op = "analyze_batch"
    /\ ret[1].status \in {"ok", "raise"}
    /\ call' = NoCall
    /\ ret' = NoRet
    /\ disk' \in Destinations
    /\ UNCHANGED <<taggingVars, rng>>

InitBatch ==
    /\ IdleTagging
    /\ call = NoCall
    /\ ret = NoRet
    /\ disk \in Destinations
    /\ rng = 0

NextBatch ==
    \/ StartBatch
    \/ ProcessFile
    \/ WriteReport
    \/ ExportCombined
    \/ NewBatch

SpecBatch == InitBatch /\ [][NextBatch]_vars

\* ------------------------------------------------------------------------
\* Properties

Elems(s) == {s[i] : i \in 1..Len(s)}

\* the value of feature k in the argument held, d when the key is missing
Feature(k, d) == Get(args.arg, k, Num(d))

\* engine e has returned normally from a call of method m
Returned(e, m) == args.method = m /\ out[e].status = "ok"

SpeedTiers == {"high_speed", "medium_speed", "low_speed", "hovering"}

\* C1: whenever the list returned by tag_target holds g_turn and
\* sharp_trajectory and speed_mean is above the medium-speed threshold (150, or
\* the configured one), the list holds evasive_maneuver too.
C1_EvasiveWhenGTurnSharpFast ==
    \A e \in Engines :
        Returned(e, "tag_target") =>
            LET tags == Elems(out[e].value)
                speed_mean == Feature("speed_mean", 0).val
            IN  ( /\ "g_turn" \in tags
                  /\ "sharp_trajectory" \in tags
                  /\ \/ speed_mean > DefaultMediumSpeed
                     \/ speed_mean > engine[e].medium_speed_thresh )
                => "evasive_maneuver" \in tags

C1_Witness ==
    \E e \in Engines :
        /\ Returned(e, "tag_target")
        /\ {"g_turn", "sharp_trajectory", "evasive_maneuver"} \subseteq Elems(out[e].value)
        /\ Feature("speed_mean", 0).val > DefaultMediumSpeed

\* C2: the speed rule group asserts only the first matching tier: high_speed
\* iff speed_mean >= high; medium_speed iff not that and speed_mean >= medium;
\* low_speed iff neither and speed_mean >= low; hovering iff none of these and
\* speed_mean < 5; and no result, of the group or of tag_target, holds two tiers.
C2_FirstMatchingSpeedTier ==
    \A e \in Engines :
        /\ Returned(e, "_tag_speed") =>
              LET tags == out[e].value
                  speed_mean == Feature("speed_mean", 0).val
                  high   == speed_mean >= engine[e].high_speed_thresh
                  medium == speed_mean >= engine[e].medium_speed_thresh
                  low    == speed_mean >= engine[e].low_speed_thresh
              IN  /\ "high_speed" \in tags <=> high
                  /\ "medium_speed" \in tags <=> (~high /\ medium)
                  /\ "low_speed" \in tags <=> (~high /\ ~medium /\ low)
                  /\ "hovering" \in tags <=> (~high /\ ~medium /\ ~low /\ speed_mean < 5)
                  /\ Cardinality(tags \cap SpeedTiers) <= 1
        /\ Returned(e, "tag_target") =>
              Cardinality(Elems(out[e].value) \cap SpeedTiers) <= 1

\* a speed below the hovering threshold that an earlier tier claims
C2_Witness ==
    \E e \in Engines :
        /\ Returned(e, "_tag_speed")
        /\ Feature("speed_mean", 0).val = 4
        /\ "low_speed" \in out[e].value

\* C3: the acceleration rule group returns both g_turn and evasive_maneuver
\* when g_force_max is strictly above the high-g threshold or high_g_events > 0,
\* and the empty set otherwise.
C3_AccelerationRule ==
    \A e \in Engines :
        Returned(e, "_tag_acceleration") =>
            LET g_force_max   == Feature("g_force_max", 0)
                high_g_events == Feature("high_g_events", 0)
                fires == \/ g_force_max.val > engine[e].high_g_thresh
                         \/ IsNum(high_g_events) /\ high_g_events.val > 0
            IN  out[e].value = IF fires THEN {"g_turn", "evasive_maneuver"} ELSE {}

\* g_force_max exactly at the threshold, no event: no tag
C3_Witness ==
    \E e \in Engines :
        /\ Returned(e, "_tag_acceleration")
        /\ Feature("g_force_max", 0).val = engine[e].high_g_thresh
        /\ Feature("high_g_events", 0) = Num(0)
        /\ out[e].value = {}

\* C4: the trajectory rule group returns sharp_trajectory iff
\* sharp_turns_count > 2 or max_turn_angle > sharp threshold; smooth_trajectory
\* iff not that and mean_turn_angle < smooth threshold; straight_line iff
\* mean_turn_angle < 5 and curvature_mean < 0.001; spiral iff curvature_mean >
\* 0.01 and mean_turn_angle > 20 and std_turn_angle < 0.3 * mean_turn_angle;
\* and nothing else.
C4_TrajectoryRule ==
    \A e \in Engines :
        Returned(e, "_tag_trajectory") =>
            LET tags == out[e].value
                mean_turn_angle   == Feature("mean_turn_angle", 0).val
                curvature_mean    == Feature("curvature_mean", 0).val
                max_turn_angle    == Feature("max_turn_angle", 0)
                sharp_turns_count == Feature("sharp_turns_count", 0).val
                std_turn_angle    == Feature("std_turn_angle", 0)
                sharp == \/ sharp_turns_count > 2
                         \/ max_turn_angle.val > engine[e].sharp_turn_thresh
            IN  /\ "sharp_trajectory" \in tags <=> sharp
                /\ "smooth_trajectory" \in tags <=>
                       (~sharp /\ mean_turn_angle < engine[e].smooth_turn_thresh)
                /\ "straight_line" \in tags <=>
                       (mean_turn_angle < 5 /\ curvature_mean < 10)
                /\ "spiral" \in tags <=>
                       /\ curvature_mean > 100
                       /\ mean_turn_angle > 20
                       /\ 10 * std_turn_angle.val < 3 * mean_turn_angle
                /\ tags \subseteq {"sharp_trajectory", "smooth_trajectory",
                                   "straight_line", "spiral"}
                /\ ~({"sharp_trajectory", "smooth_trajectory"} \subseteq tags)

\* a sharp trajectory whose mean turn angle is below the smooth threshold
C4_Witness ==
    \E e \in Engines :
        /\ Returned(e, "_tag_trajectory")
        /\ out[e].value = {"sharp_trajectory", "straight_line"}
        /\ Feature("mean_turn_angle", 0).val < engine[e].smooth_turn_thresh

\* C5: with duration > 0 the altitude rule group returns ascending iff
\* altitude_change / duration > 10, descending iff it is < -10, and nothing
\* else; never both.
C5_AltitudeRule ==
    \A e \in Engines :
        (Returned(e, "_tag_altitude") /\ Feature("duration", 1).val > 0) =>
            LET tags == out[e].value
                altitude_change == Feature("altitude_change", 0).val
                duration == Feature("duration", 1).val
            IN  /\ "ascending" \in tags <=> altitude_change > 10 * duration
                /\ "descending" \in tags <=> altitude_change < (-10) * duration
                /\ tags \subseteq {"ascending", "descending"}
                /\ tags # {"ascending", "descending"}

\* a rate of exactly 10 m/s over 2 s is not ascending
C5_Witness ==
    \E e \in Engines :
        /\ Returned(e, "_tag_altitude")
        /\ Feature("duration", 1) = Num(2)
        /\ Feature("altitude_change", 0) = Num(20)
        /\ out[e].value = {}

\* C6: the list returned by tag_target holds loitering iff speed_mean < low
\* threshold and mean_turn_angle > 10 and total_path_length > 1000.
C6_LoiteringIff ==
    \A e \in Engines :
        Returned(e, "tag_target") =>
            LET speed_mean      == Feature("speed_mean", 0).val
                mean_turn_angle == Feature("mean_turn_angle", 0).val
                path_length     == Feature("total_path_length", 0)
            IN  "loitering" \in Elems(out[e].value) <=>
                    /\ speed_mean < engine[e].low_speed_thresh
                    /\ mean_turn_angle > 10
                    /\ path_length.val > 1000

\* loitering at a speed that is below a configured low threshold only
C6_Witness ==
    \E e \in Engines :
        /\ Returned(e, "tag_target")
        /\ "loitering" \in Elems(out[e].value)
        /\ Feature("speed_mean", 0).val >= DefaultLowSpeed

\* C7: the list returned by tag_target is in strictly increasing
\* lexicographic order, its elements are exactly the union of what the five
\* rule groups return for the same feature map, and all are BehaviorTag values.
C7_SortedUnionOfGroups ==
    \A e \in Engines :
        Returned(e, "tag_target") =>
            LET tag_list == out[e].value
                self == engine[e]
                features == args.arg
            IN  /\ \A i \in 1..Len(tag_list), j \in 1..Len(tag_list) :
                       i < j => LexLess(Chars[tag_list[i]], Chars[tag_list[j]])
                /\ Elems(tag_list) =
                       _tag_speed(self, features).tags
                       \cup _tag_acceleration(self, features).tags
                       \cup _tag_trajectory(self, features).tags
                       \cup _tag_altitude(self, features).tags
                       \cup _tag_complex_behaviors(self, features).tags
                /\ Elems(tag_list) \subseteq BehaviorTag

\* a list with tags of all five groups
C7_Witness ==
    \E e \in Engines :
        /\ Returned(e, "tag_target")
        /\ {"accelerating", "ascending", "g_turn", "loitering", "spiral"}
               \subseteq Elems(out[e].value)

\* C8: two engines built from the same configuration return the same list
\* from tag_target for the same feature map, whatever calls they served before.
C8_Deterministic ==
    \A e1 \in Engines, e2 \in Engines :
        ( /\ args.method = "tag_target"
          /\ out[e1].status # "none"
          /\ out[e2].status # "none"
          /\ engine[e1].config = engine[e2].config )
        => out[e1] = out[e2]

C8_Witness ==
    /\ args.method = "tag_target"
    /\ engine["e1"].config = engine["e2"].config
    /\ out["e1"].status = "ok"
    /\ out["e2"].status = "ok"
    /\ Len(out["e1"].value) >= 3

\* C9: batch_tag returns a list as long as its input whose i-th element is
\* what tag_target returns for the i-th feature map alone.
C9_BatchPointwise ==
    \A e \in Engines :
        Returned(e, "batch_tag") =>
            /\ Len(out[e].value) = Len(args.arg)
            /\ \A i \in 1..Len(args.arg) :
                   out[e].value[i] = tag_target(engine[e], args.arg[i]).value

\* a batch of three items with three different tag lists
C9_Witness ==
    \E e \in Engines :
        /\ Returned(e, "batch_tag")
        /\ Len(args.arg) = 3
        /\ Cardinality(Elems(out[e].value)) = 3

\* the items of features_list that tag_target does not fail on, in order
RECURSIVE Taggable(_, _)
Taggable(self, features_list) ==
    IF features_list = <<>> THEN <<>>
    ELSE LET tags == tag_target(self, Head(features_list))
         IN  (IF tags.status = "ok" THEN <<tags.value>> ELSE <<>>)
             \o Taggable(self, Tail(features_list))

\* C10: when tagging one feature map of a batch fails, batch_tag still
\* returns, with the tag lists of all the other feature maps of the batch.
C10_BatchIsolatesFailures ==
    \A e \in Engines :
        ( /\ args.method = "batch_tag"
          /\ out[e].status # "none"
          /\ \E i \in 1..Len(args.arg) :
                 tag_target(engine[e], args.arg[i]).status = "raise" )
        => /\ out[e].status = "ok"
           /\ out[e].value = Taggable(engine[e], args.arg)

\* what reading the destination back gives
ReadBack == json_load(disk.file.doc)

\* Python's == on two numbers, whatever their types
NumEq(a, b) ==
    /\ a.type \in {"float", "int", "np.float64", "np.int64"}
    /\ b.type \in {"float", "int", "np.float64", "np.int64"}
    /\ a.val = b.val

\* a list read back holds the elements of the original sequence, in order
SeqEq(read, original) ==
    /\ read.type = "list"
    /\ original.type \in {"ndarray", "list"}
    /\ Len(read.val) = Len(original.val)
    /\ \A i \in 1..Len(original.val) : read.val[i] = original.val[i]

\* C11: after export_tags returned for lists of equal length, reading the
\* file back gives one record per pair, in order, with the same tags, the
\* same feature names, equal scalar values and, for an array feature, a list
\* of the same elements in the same order.
C11_ExportRoundTrip ==
    \A r \in Runs :
        ( /\ call.op = "export_tags"
          /\ ret[r].status = "ok"
          /\ Len(call.arg.features_list) = Len(call.arg.tags_list) )
        => /\ disk.file.state = "complete"
           /\ Len(ReadBack) = Len(call.arg.features_list)
           /\ \A i \in 1..Len(call.arg.features_list) :
                  LET original == call.arg.features_list[i]
                      record == ReadBack[i]
                  IN  /\ record.tags = call.arg.tags_list[i]
                      /\ DOMAIN record.features = DOMAIN original
                      /\ \A key \in DOMAIN original :
                             IF original[key].type = "ndarray"
                             THEN SeqEq(record.features[key], original[key])
                             ELSE NumEq(record.features[key], original[key])

\* two pairs with numpy scalars, arrays and plain numbers were exported
C11_Witness ==
    \E r \in Runs :
        /\ call.op = "export_tags"
        /\ ret[r].status = "ok"
        /\ Len(call.arg.features_list) = 2
        /\ Len(call.arg.tags_list) = 2
        /\ \E i \in 1..2 : \E key \in DOMAIN call.arg.features_list[i] :
               call.arg.features_list[i][key].type = "ndarray"
        /\ \E i \in 1..2 : \E key \in DOMAIN call.arg.features_list[i] :
               call.arg.features_list[i][key].type = "int"
        /\ Len(ReadBack) = 2

\* C12: when creating the directory, opening or writing the destination
\* fails, export_tags raises; it returns normally only with the destination
\* written in full.
C12_ExportFailurePropagates ==
    \A r \in Runs :
        (call.op = "export_tags" /\ ret[r].status # "none")
        => /\ call.arg.io # "ok" => ret[r].status = "raise"
           /\ ret[r].status = "ok" =>
                  /\ disk.file.state = "complete"
                  /\ disk.file.doc =
                         json_dump(export_data(call.arg.features_list, call.arg.tags_list))

\* a failed write leaves a partial file and the call raised
C12_Witness ==
    \E r \in Runs :
        /\ call.op = "export_tags"
        /\ call.arg.io = "write"
        /\ ret[r].status = "raise"
        /\ disk.file.state = "partial"

\* ------------------------------------------------------------------------
\* Properties of the feature extractor

\* the call op has returned
ReturnedFrom(op) == call.op = op /\ ret[1].status # "none"

\* C13: for every track with a velocity field the raw speed sequence of the
\* feature map has as many samples as the velocity sequence, from
\* extract_velocity_features and from extract_all_features alike
C13_SpeedLength ==
    /\ ReturnedFrom("extract_velocity_features") /\ ret[1].status = "ok"
           => /\ "speed" \in DOMAIN ret[1].value
              /\ Len(ret[1].value["speed"].val) = Len(call.arg.velocity)
    /\ ReturnedFrom("extract_all_features") /\ ret[1].status = "ok"
         /\ "velocity" \in DOMAIN call.arg.data
           => /\ "speed" \in DOMAIN ret[1].value
              /\ Len(ret[1].value["speed"].val) = Len(call.arg.data["velocity"].val)

C13_Witness ==
    /\ ReturnedFrom("extract_all_features")
    /\ ret[1].status = "ok"
    /\ "velocity" \in DOMAIN call.arg.data
    /\ Len(call.arg.data["velocity"].val) = MaxSamples
    /\ Len(ret[1].value["speed"].val) = MaxSamples
    /\ ret[1].value["speed"].val[1] # ret[1].value["speed"].val[2]

\* C14: for a position sequence of N >= 0 samples the sequences returned by
\* _compute_turn_angles and by _compute_curvature both have length
\* max(0, N-2), so both are empty for N < 3
C14_TurnAndCurvatureLengths ==
    LET N == Len(call.arg.position)
    IN  (ReturnedFrom("_compute_turn_angles") \/ ReturnedFrom("_compute_curvature"))
        => /\ ret[1].status = "ok"
           /\ Len(ret[1].value.val) = (IF N >= 2 THEN N - 2 ELSE 0)

\* C15: trajectory feature extraction on 1 or 2 positions completes without
\* a fault and yields empty turn-angle and curvature sequences
C15_ShortInputDegrades ==
    (ReturnedFrom("extract_trajectory_features") /\ Len(call.arg.position) \in {1, 2})
    => /\ ret[1].status = "ok"
       /\ ret[1].value["turn_angles"].val = <<>>
       /\ _compute_curvature(call.arg.position) = <<>>

\* the keys that show a category of features in a feature map
CategoryKeys ==
    [velocity   |-> {"speed", "speed_mean", "g_force", "g_force_mean"},
     position   |-> {"turn_angles", "total_path_length", "altitude_mean", "curvature_mean"},
     doppler    |-> {"doppler_mean", "doppler_peaks_count"},
     raw_data   |-> {"rcs_mean_db", "rcs_fluctuation"},
     timestamps |-> {"duration", "num_samples"}]

\* C16: whatever subset of the fields velocity, position, doppler, raw_data,
\* timestamps and metadata a track has, extract_all_features returns without
\* raising, and the features of a category are in the map if and only if
\* the field they need is in the track
C16_MissingFieldSkip ==
    ReturnedFrom("extract_all_features")
    => /\ ret[1].status = "ok"
       /\ \A field \in DOMAIN CategoryKeys :
              \A k \in CategoryKeys[field] :
                  k \in DOMAIN ret[1].value <=> field \in DOMAIN call.arg.data

\* ------------------------------------------------------------------------
\* Properties of the synthetic data generator

\* run r of the call op has returned
RunReturned(op, r) == call.op = op /\ ret[r].status # "none"

\* int(duration * prf) of the generator of the call
SamplesOf(self) == IntOf(self.duration.val * self.prf.val, 1000000)

\* C17: a generate_target request that names none of the defined archetypes
\* fails explicitly, so no track labelled with the unknown name is returned
C17_UnknownArchetypeFails ==
    \A r \in Runs :
        (RunReturned("generate_target", r) /\ call.arg.behavior \notin Archetypes)
        => ret[r].status = "raise"

\* C18: generate_test_scenarios returns exactly 5 tracks, in the order
\* high_speed (1001), evasive_maneuver (1002), medium_speed (1003), hovering
\* (1004), sharp_trajectory (1005); the ground_truth_behavior of each track
\* is the behavior of its metadata, and the 5 behaviors are pairwise
\* distinct.  (A generator of no sample, int(duration * prf) < 1, returns
\* no track at all.)
C18_FiveFixedScenarios ==
    \A r \in Runs :
        RunReturned("generate_test_scenarios", r)
        => LET tracks   == ret[r].value
               expected == <<<<"high_speed", 1001>>, <<"evasive_maneuver", 1002>>,
                             <<"medium_speed", 1003>>, <<"hovering", 1004>>,
                             <<"sharp_trajectory", 1005>>>>
           IN  /\ SamplesOf(call.arg.self) >= 1 => ret[r].status = "ok"
               /\ ret[r].status = "ok"
                  => /\ Len(tracks) = 5
                     /\ \A i \in 1..5 :
                            /\ tracks[i].ground_truth_behavior = PyStr(expected[i][1])
                            /\ tracks[i].metadata.target_id = PyInt(expected[i][2])
                            /\ tracks[i].ground_truth_behavior = tracks[i].metadata.behavior
                     /\ \A i, j \in 1..5 :
                            i # j => tracks[i].ground_truth_behavior
                                     # tracks[j].ground_truth_behavior

C18_Witness ==
    /\ RunReturned("generate_test_scenarios", 1)
    /\ ret[1].status = "ok"
    /\ Len(ret[1].value) = 5
    /\ ret[1].value[4].metadata.behavior = PyStr("hovering")
    /\ Len(ret[1].value[4].position.val) = MaxGenSamples

\* C19: generate_test_scenarios is deterministic: two invocations on a
\* generator of one configuration return tracks with the same position,
\* velocity, raw signal and Doppler sequences, whatever the state of the
\* random source
C19_ScenariosDeterministic ==
    (/\ RunReturned("generate_test_scenarios", 1) /\ ret[1].status = "ok"
     /\ RunReturned("generate_test_scenarios", 2) /\ ret[2].status = "ok")
    => \A i \in 1..Len(ret[1].value) :
           /\ ret[1].value[i].position = ret[2].value[i].position
           /\ ret[1].value[i].velocity = ret[2].value[i].velocity
           /\ ret[1].value[i].raw_data = ret[2].value[i].raw_data
           /\ ret[1].value[i].doppler = ret[2].value[i].doppler

\* the entries of the distribution of the call, the default one when the
\* argument is None
GivenDistribution ==
    IF call.arg.behavior_distribution.type = "NoneType"
    THEN DefaultDistribution ELSE call.arg.behavior_distribution.val

\* C20: generate_dataset returns exactly num_targets tracks, the i-th
\* (0-based) with target_id i and a ground_truth_behavior that is a key of
\* the distribution with a weight that is not 0; the weights are divided by
\* their total, so at any scale of the weights (no weight negative, their
\* total positive) the draw is made and the call returns
C20_DatasetFromDistribution ==
    \A r \in Runs :
        RunReturned("generate_dataset", r)
        => LET self    == call.arg.self
               given   == GivenDistribution
               weights == [j \in 1..Len(given) |-> given[j][2]]
           IN  /\ (/\ SamplesOf(self) >= 1
                   /\ \A j \in 1..Len(given) : weights[j] >= 0
                   /\ SumSeq(weights) > 0) => ret[r].status = "ok"
               /\ ret[r].status = "ok"
                  => /\ Len(ret[r].value) = self.num_targets.val
                     /\ \A i \in 1..Len(ret[r].value) :
                            /\ ret[r].value[i].metadata.target_id = PyInt(i - 1)
                            /\ \E j \in 1..Len(given) :
                                   /\ ret[r].value[i].ground_truth_behavior = PyStr(given[j][1])
                                   /\ given[j][2] # 0

C20_Witness ==
    /\ RunReturned("generate_dataset", 1)
    /\ ret[1].status = "ok"
    /\ call.arg.behavior_distribution
           = [type |-> "dict", val |-> <<<<"high_speed", 300>>, <<"hovering", 200>>>>]
    /\ Len(ret[1].value) = MaxTargets
    /\ ret[1].value[1].ground_truth_behavior = PyStr("hovering")
    /\ ret[1].value[MaxTargets].ground_truth_behavior = PyStr("high_speed")

\* C21: every track returned by generate_target, whatever the archetype,
\* has timestamps, position, velocity, raw_data and doppler of the same
\* length N = int(duration * prf), metadata num_samples = N, and exactly the
\* fields raw_data, position, velocity, timestamps, doppler, metadata and
\* ground_truth_behavior
C21_TrackFieldsAligned ==
    \A r \in Runs :
        (RunReturned("generate_target", r) /\ ret[r].status = "ok")
        => LET track == ret[r].value
               N     == SamplesOf(call.arg.self)
           IN  /\ DOMAIN track = {"raw_data", "position", "velocity", "timestamps",
                                  "doppler", "metadata", "ground_truth_behavior"}
               /\ \A f \in {"timestamps", "position", "velocity", "raw_data", "doppler"} :
                      Len(track[f].val) = N
               /\ track.metadata.num_samples = PyInt(N)

\* a hovering track of two samples has been returned
C21_Witness ==
    \E r \in Runs :
        /\ RunReturned("generate_target", r)
        /\ ret[r].status = "ok"
        /\ call.arg.behavior = "hovering"
        /\ SamplesOf(call.arg.self) = 2
        /\ Len(ret[r].value.doppler.val) = 2

\* the threshold a configuration supplies under section and key, else the
\* documented default
Configured(cfg, section, key, default) ==
    IF section \in DOMAIN cfg /\ key \in DOMAIN cfg[section]
    THEN cfg[section][key] ELSE default

\* C22: an engine constructed with any subset of the threshold keys missing
\* (or with no configuration) takes the documented default for every
\* missing threshold (high_speed 300, medium_speed 150, low_speed 50,
\* high_g 5.0, sharp_turn_angle 45, smooth_turn_angle 15) and the supplied
\* value for every supplied one, whatever other keys are present
C22_ConfigurationDefaulting ==
    \A e \in Engines :
        LET cfg == engine[e].config
        IN  /\ engine[e].high_speed_thresh
               = Configured(cfg, "velocity_threshold", "high_speed", 300)
            /\ engine[e].medium_speed_thresh
               = Configured(cfg, "velocity_threshold", "medium_speed", 150)
            /\ engine[e].low_speed_thresh
               = Configured(cfg, "velocity_threshold", "low_speed", 50)
            /\ engine[e].high_g_thresh
               = Configured(cfg, "acceleration_threshold", "high_g", 50)
            /\ engine[e].sharp_turn_thresh
               = Configured(cfg, "trajectory", "sharp_turn_angle", 45)
            /\ engine[e].smooth_turn_thresh
               = Configured(cfg, "trajectory", "smooth_turn_angle", 15)

\* an engine built from a configuration that supplies high_speed and
\* sharp_turn_angle only
C22_Witness ==
    \E e \in Engines :
        /\ engine[e].config = [velocity_threshold |-> [high_speed |-> 200],
                               trajectory         |-> [sharp_turn_angle |-> 30]]
        /\ engine[e].high_speed_thresh = 200
        /\ engine[e].low_speed_thresh = 50
        /\ engine[e].high_g_thresh = 50

\* C23: the result of the composite rule group itself holds
\* evasive_maneuver whenever, for the same feature map, the acceleration
\* group asserts g_turn, the trajectory group asserts sharp_trajectory and
\* speed_mean is above the medium-speed threshold
C23_CompositeAssertsEvasive ==
    \A e \in Engines :
        (/\ Returned(e, "_tag_complex_behaviors")
         /\ "g_turn" \in _tag_acceleration(engine[e], args.arg).tags
         /\ "sharp_trajectory" \in _tag_trajectory(engine[e], args.arg).tags
         /\ Feature("speed_mean", 0).val > engine[e].medium_speed_thresh)
        => "evasive_maneuver" \in out[e].value

\* C24: the feature map holds prf (respectively center_frequency) exactly
\* when the metadata of the track holds that entry, and then with the value
\* of the metadata; a track whose metadata lacks the entry, or that has no
\* metadata, gets no such feature
C24_MetadataPassThrough ==
    (ReturnedFrom("extract_all_features") /\ ret[1].status = "ok")
    => LET data     == call.arg.data
           features == ret[1].value
       IN  \A k \in {"prf", "center_frequency"} :
               /\ k \in DOMAIN features
                  <=> ("metadata" \in DOMAIN data /\ k \in DOMAIN data["metadata"])
               /\ k \in DOMAIN features /\ "metadata" \in DOMAIN data
                  /\ k \in DOMAIN data["metadata"]
                  => features[k] = data["metadata"][k]

\* the trend tags the speed rule group of engine e returned, given which
\* speed sequences count as available: none when the sequence is not
\* available, else accelerating iff the least-squares slope is > 5 and
\* decelerating iff it is < -5 (when speed_std > 0.3 * speed_mean), never
\* both, and the call does not fault
TrendRule(e, available(_)) ==
    (/\ args.method = "_tag_speed"
     /\ out[e].status # "none"
     /\ IsNum(Feature("speed_mean", 0))
     /\ IsNum(Feature("speed_std", 0)))
    => LET speed  == Get(args.arg, "speed", NdArray(<<>>))
           varies == 10 * Feature("speed_std", 0).val > 3 * Feature("speed_mean", 0).val
           fitted == varies /\ available(speed)
           tags   == out[e].value
       IN  /\ out[e].status = "ok"
           /\ "accelerating" \in tags
              <=> (fitted /\ PolyfitNum(speed.val) > 5 * PolyfitDen(speed.val))
           /\ "decelerating" \in tags
              <=> (fitted /\ PolyfitNum(speed.val) < (-5) * PolyfitDen(speed.val))
           /\ ~({"accelerating", "decelerating"} \subseteq tags)

C26_CallsLeaveInputsAndEngine ==
    /\ [](\A e \in Engines : engine[e] = _load_thresholds(engine[e].config))
    /\ [][(args'.method \in {"tag_target", "batch_tag", "generate_report"} /\ out' # out)
          => /\ engine' = engine
             /\ args.method # "none" => args'.arg = args.arg]_vars

\* both engines, one of them with configured thresholds, have served a
\* generate_report call on the same feature map and tags
C26_Witness ==
    /\ args.method = "generate_report"
    /\ args.arg.features # EmptyDict
    /\ engine["e1"].config # EmptyDict
    /\ engine["e1"] = _load_thresholds(engine["e1"].config)
    /\ out["e1"].status = "ok"
    /\ out["e2"].status = "ok"

\* C27: every list returned by tag_target holds g_turn if and only if it
\* holds evasive_maneuver
C27_GTurnIffEvasive ==
    \A e \in Engines :
        Returned(e, "tag_target")
        => ("g_turn" \in Elems(out[e].value) <=> "evasive_maneuver" \in Elems(out[e].value))

\* a slow target without sharp turns whose g-force is above the threshold
\* gets both tags, and a fast one of low g-force gets neither
C27_Witness ==
    \E e \in Engines :
        /\ Returned(e, "tag_target")
        /\ \/ /\ Feature("speed_mean", 0).val <= engine[e].medium_speed_thresh
              /\ "max_turn_angle" \notin DOMAIN args.arg
              /\ {"g_turn", "evasive_maneuver"} \subseteq Elems(out[e].value)
           \/ /\ Feature("speed_mean", 0).val > engine[e].medium_speed_thresh
              /\ "max_turn_angle" \in DOMAIN args.arg
              /\ Feature("g_force_max", 0).val = engine[e].high_g_thresh
              /\ {"g_turn", "evasive_maneuver"} \cap Elems(out[e].value) = {}

\* C28: under default thresholds tag_target on the empty feature map does
\* not fault and returns exactly [hovering, smooth_trajectory,
\* straight_line]: every absent feature is read as 0 (duration as 1.0)
C28_EmptyMapTags ==
    \A e \in Engines :
        (/\ args.method = "tag_target"
         /\ out[e].status # "none"
         /\ args.arg = EmptyDict
         /\ engine[e] = TaggingEngine(NoneVal))
        => out[e] = Ok(<<"hovering", "smooth_trajectory", "straight_line">>)

\* an engine of default thresholds has tagged the empty map
C28_Witness ==
    \E e \in Engines :
        /\ Returned(e, "tag_target")
        /\ DOMAIN args.arg = {}
        /\ engine[e].config = EmptyDict
        /\ Len(out[e].value) = 3

\* C29: for a feature map whose duration is 0 or negative the altitude rule
\* group raises no fault and asserts neither ascending nor descending,
\* whatever altitude_change is (nothing is divided); when duration is
\* absent it is taken as 1.0, so altitude_change itself is compared with
\* the thresholds +10 and -10
C29_AltitudeWithoutDuration ==
    \A e \in Engines :
        (args.method = "_tag_altitude" /\ out[e].status # "none")
        => /\ ("duration" \in DOMAIN args.arg /\ IsNum(args.arg.duration)
               /\ args.arg.duration.val <= 0)
              => out[e] = Ok({})
           /\ ("duration" \notin DOMAIN args.arg /\ IsNum(Feature("altitude_change", 0)))
              => out[e] = Ok(IF Feature("altitude_change", 0).val > 10 THEN {"ascending"}
                             ELSE IF Feature("altitude_change", 0).val < -10
                                  THEN {"descending"}
                                  ELSE {})

\* a climb of 21 m over a duration of 0 s, or an altitude_change that is
\* not a number over a negative duration, has given no tag and no fault
C29_Witness ==
    \E e \in Engines :
        /\ Returned(e, "_tag_altitude")
        /\ out[e].value = {}
        /\ \/ args.arg = [altitude_change |-> Num(21), duration |-> Num(0)]
           \/ args.arg = [altitude_change |-> NoneVal, duration |-> Num(-1)]

\* ------------------------------------------------------------------------
\* Properties of analyze_batch

\* the results of those of the first n files whose load, feature extraction
\* and tagging all succeed, in the order of the files
AnalysedAmong(n) ==
    LET Succeeds(file) == load_extract_tag(engine["e1"], file).status = "ok"
        files          == SelectSeq(SubSeq(call.arg.files, 1, n), Succeeds)
    IN  [k \in 1..Len(files) |-> load_extract_tag(engine["e1"], files[k]).value]

\* C30: in analyze_batch a failure while loading, extracting features from
\* or tagging a file never stops the processing of later files: the loop
\* ends only past the last file, all_features and all_tags have equal
\* length at every point of the loop and hold the results of exactly the
\* files so far whose load, extraction and tagging succeeded, in file
\* order; and a combined export that was written holds one record for each
\* of those files, in that order
C30_BatchSkipsFailedFiles ==
    call.op = "analyze_batch"
    => LET at   == ret[1].value
           seen == IF at.pc = "report" THEN at.i ELSE at.i - 1
           done == AnalysedAmong(seen)
       IN  /\ Len(at.all_features) = Len(at.all_tags)
           /\ at.all_features = [k \in 1..Len(done) |-> done[k].features]
           /\ at.all_tags = [k \in 1..Len(done) |-> done[k].tags]
           /\ at.pc = "done" => seen = Len(call.arg.files)
           /\ ret[1].status = "ok"
              => /\ disk.file.state = "complete"
                 /\ Len(ReadBack) = Len(done)
                 /\ \A k \in 1..Len(done) :
                        /\ ReadBack[k].tags = done[k].tags
                        /\ DOMAIN ReadBack[k].features = DOMAIN done[k].features
                        /\ \A key \in DOMAIN done[k].features :
                               IF done[k].features[key].type = "ndarray"
                               THEN SeqEq(ReadBack[k].features[key], done[k].features[key])
                               ELSE NumEq(ReadBack[k].features[key], done[k].features[key])

\* three files: the first cannot be loaded, the features of the second
\* cannot be extracted, the third is analysed; the export holds its record
C30_Witness ==
    /\ call.op = "analyze_batch"
    /\ ret[1].status = "ok"
    /\ Len(call.arg.files) = 3
    /\ call.arg.files[1].load.status = "raise"
    /\ call.arg.files[2].load.status = "ok"
    /\ load_extract_tag(engine["e1"], call.arg.files[2]).status = "raise"
    /\ load_extract_tag(engine["e1"], call.arg.files[3]).status = "ok"
    /\ Len(ReadBack) = 1

====
